---- MODULE Spec2Model ----
(***************************************************************************)
(* A model of the signed-exchange and web-bundle writers and of the bundle *)
(* metadata reader of go/signedexchange and go/bundle.  Strings and byte   *)
(* slices are sequences of byte values (0..255).                           *)
(***************************************************************************)
EXTENDS Integers, Sequences, FiniteSets, TLC

(***************************************************************************)
(* Bounds of the model.                                                    *)
(***************************************************************************)
\* how many times the caller may call NewInput on the same header collection
MaxNewInput == 2
\* how many exchanges a Bundle may hold
MaxExchanges == 2
\* how many sections a caller may append with AddSectionOrdered
MaxSections == 3

\* the longest list of entries a caller passes to EncodeMap
MaxMapEntries == 3

\* the longest payload and the largest record size a caller passes to NewInput
MaxPayload == 6

MaxRecordSize == 4

(***************************************************************************)
(* Byte-string helpers.                                                    *)
(***************************************************************************)
\* n copies of byte b
Repeat(b, n) == [k \in 1..n |-> b]

\* bytes.Compare(a, b) < 0 : byte-wise lexicographic order, a proper prefix first
BytesLess(a, b) ==
  LET n == IF Len(a) < Len(b) THEN Len(a) ELSE Len(b)
      D == {k \in 1..n : a[k] # b[k]}
  IN IF D = {} THEN Len(a) < Len(b)
     ELSE LET k == CHOOSE k \in D : \A j \in D : k <= j
          IN a[k] < b[k]

\* strings.HasPrefix
HasPrefix(s, p) == Len(p) <= Len(s) /\ SubSeq(s, 1, Len(p)) = p

\* strings.HasSuffix
HasSuffix(s, p) == Len(p) <= Len(s) /\ SubSeq(s, Len(s) - Len(p) + 1, Len(s)) = p

\* the suffix of s from (1-based) position k on
DropTo(s, k) == SubSeq(s, k, Len(s))

\* big-endian encoding of n in k bytes (binary.BigEndian)
RECURSIVE BigEndian(_, _)
BigEndian(n, k) ==
  IF k = 0 THEN <<>> ELSE BigEndian(n \div 256, k - 1) \o <<n % 256>>

\* the value of a big-endian byte string
RECURSIVE FromBigEndian(_)
FromBigEndian(bs) ==
  IF bs = <<>> THEN 0
  ELSE FromBigEndian(SubSeq(bs, 1, Len(bs) - 1)) * 256 + bs[Len(bs)]

\* strings.ToLower on ASCII
ToLower(s) == [k \in 1..Len(s) |-> IF s[k] >= 65 /\ s[k] <= 90 THEN s[k] + 32 ELSE s[k]]

\* strconv.Itoa / fmt %d of a non-negative number
RECURSIVE ItoaNat(_)
ItoaNat(n) ==
  IF n < 10 THEN <<48 + n>> ELSE ItoaNat(n \div 10) \o <<48 + (n % 10)>>

\* strconv.Itoa / fmt %d
Itoa(n) == IF n < 0 THEN <<45>> \o ItoaNat(0 - n) ELSE ItoaNat(n)

\* strings.Join
RECURSIVE Join(_, _)
Join(ss, sep) ==
  IF ss = <<>> THEN <<>>
  ELSE IF Len(ss) = 1 THEN ss[1]
  ELSE ss[1] \o sep \o Join(Tail(ss), sep)

\* strings.Split(s, sep) for a one-byte separator: the pieces between the
\* positions of sep
Split(s, sep) ==
  LET P == {k \in 1..Len(s) : s[k] = sep}
      pos == [i \in 1..Cardinality(P) |->
                CHOOSE k \in P : Cardinality({j \in P : j < k}) = i - 1]
  IN [i \in 1..(Cardinality(P) + 1) |->
        SubSeq(s, IF i = 1 THEN 1 ELSE pos[i - 1] + 1,
                  IF i = Cardinality(P) + 1 THEN Len(s) ELSE pos[i] - 1)]

\* strings.TrimPrefix
TrimPrefix(s, p) == IF HasPrefix(s, p) THEN DropTo(s, Len(p) + 1) ELSE s

\* strings.TrimSuffix
TrimSuffix(s, p) == IF HasSuffix(s, p) THEN SubSeq(s, 1, Len(s) - Len(p)) ELSE s

\* the elements of a sequence
Range(s) == {s[k] : k \in 1..Len(s)}

(***************************************************************************)
(* Package cbor: the canonical CBOR encoder and the decoder.               *)
(***************************************************************************)
TwoTo16 == 65536

\* CborHeader without the one-byte form of the argument
CborHeader_NoOneByteForm(major, n) ==
  IF n < 24 THEN <<major * 32 + n>>
  ELSE IF n < TwoTo16 THEN <<major * 32 + 25>> \o BigEndian(n, 2)
  ELSE IF n \div TwoTo16 < TwoTo16 THEN <<major * 32 + 26>> \o BigEndian(n, 4)
  ELSE <<major * 32 + 27>> \o BigEndian(n, 8)

\* the initial byte(s) of an item of the given major type with argument n,
\* in shortest form
CborHeader(major, n) ==
  IF n < 24 THEN <<major * 32 + n>>
  ELSE IF n < 256 THEN <<major * 32 + 24, n>>
  ELSE IF n < TwoTo16 THEN <<major * 32 + 25>> \o BigEndian(n, 2)
  ELSE IF n \div TwoTo16 < TwoTo16 THEN <<major * 32 + 26>> \o BigEndian(n, 4)
  ELSE <<major * 32 + 27>> \o BigEndian(n, 8)

EncodeUInt(n) == CborHeader(0, n)

\* positive values use major type 0, negative ones major type 1 with -1 - n
EncodeInt(n) == IF n >= 0 THEN CborHeader(0, n) ELSE CborHeader(1, (0 - 1) - n)

EncodeByteString(bs) == CborHeader(2, Len(bs)) \o bs

EncodeTextString(s) == CborHeader(3, Len(s)) \o s

EncodeArrayHeader(n) == CborHeader(4, n)

\* one map entry: the encoded key and the encoded value, each in a buffer of its own
GenerateMapEntry(keyBytes, valueBytes) == [key |-> keyBytes, value |-> valueBytes]

\* insert entry e into the sequence es, sorted by encoded key bytes
RECURSIVE InsertEntry(_, _)
InsertEntry(e, es) ==
  IF es = <<>> THEN <<e>>
  ELSE IF BytesLess(e.key, Head(es).key) THEN <<e>> \o es
  ELSE <<Head(es)>> \o InsertEntry(e, Tail(es))

\* the entries in canonical order (bytewise order of the encoded keys)
RECURSIVE SortEntries(_)
SortEntries(es) ==
  IF es = <<>> THEN <<>> ELSE InsertEntry(Head(es), SortEntries(Tail(es)))

RECURSIVE ConcatEntries(_)
ConcatEntries(es) ==
  IF es = <<>> THEN <<>>
  ELSE Head(es).key \o Head(es).value \o ConcatEntries(Tail(es))

\* the map header, then the entries in canonical order
EncodeMap(mes) == CborHeader(5, Len(mes)) \o ConcatEntries(SortEntries(mes))

\* DecodeHead that takes an argument in any form
DecodeHead_AnyForm(bs) ==
  LET bad == [ok |-> FALSE, major |-> 0, n |-> 0, rest |-> <<>>]
      info == bs[1] % 32
      mt == bs[1] \div 32
      width == CASE info = 24 -> 1 [] info = 25 -> 2 [] info = 26 -> 4 [] OTHER -> 8
  IN IF bs = <<>> THEN bad
     ELSE IF info < 24 THEN [ok |-> TRUE, major |-> mt, n |-> info, rest |-> Tail(bs)]
     ELSE IF info > 27 THEN bad
     ELSE IF Len(bs) < 1 + width THEN bad
     ELSE IF info = 27 THEN bad
     ELSE [ok |-> TRUE, major |-> mt, n |-> FromBigEndian(SubSeq(bs, 2, 1 + width)),
           rest |-> DropTo(bs, 2 + width)]

\* Decoder: the head of an item: [ok, major, n, rest]; a non-minimal argument
\* and a truncated input are errors
DecodeHead(bs) ==
  LET bad == [ok |-> FALSE, major |-> 0, n |-> 0, rest |-> <<>>]
      info == bs[1] % 32
      mt == bs[1] \div 32
      width == CASE info = 24 -> 1 [] info = 25 -> 2 [] info = 26 -> 4 [] OTHER -> 8
      least == CASE info = 24 -> 24 [] info = 25 -> 256 [] OTHER -> TwoTo16
  IN IF bs = <<>> THEN bad
     ELSE IF info < 24 THEN [ok |-> TRUE, major |-> mt, n |-> info, rest |-> Tail(bs)]
     ELSE IF info > 27 THEN bad
     ELSE IF Len(bs) < 1 + width THEN bad
     ELSE IF info = 27 THEN bad \* beyond the range of the model's numbers
     ELSE LET v == FromBigEndian(SubSeq(bs, 2, 1 + width))
          IN IF v < least THEN bad
             ELSE [ok |-> TRUE, major |-> mt, n |-> v, rest |-> DropTo(bs, 2 + width)]

\* an item head of one given major type; the error names the major type
\* that was expected
DecodeTyped(bs, major) ==
  LET h == DecodeHead(bs)
  IN IF h.ok /\ h.major = major THEN h
     ELSE [ok |-> FALSE, major |-> major, n |-> 0, rest |-> <<>>]

\* a uint64 value is kept as its 8 big-endian bytes
U64(n) == BigEndian(n, 8)

\* the value of a uint64 that fits the model's numbers
ToNat(u) == FromBigEndian(u)

\* the sum of two byte strings of one length as big-endian numbers, modulo
\* 256^length
RECURSIVE AddCarry(_, _, _)
AddCarry(a, b, carry) ==
  IF a = <<>> THEN <<>>
  ELSE LET n == Len(a)
           t == a[n] + b[n] + carry
       IN AddCarry(SubSeq(a, 1, n - 1), SubSeq(b, 1, n - 1), t \div 256) \o <<t % 256>>

\* a + b in uint64 arithmetic (wraps around)
AddU64(a, b) == AddCarry(a, b, 0)

\* a <= b of two uint64 values
LeqU64(a, b) == a = b \/ BytesLess(a, b)

RECURSIVE StripZeros(_)
StripZeros(bs) ==
  IF bs # <<>> /\ Head(bs) = 0 THEN StripZeros(Tail(bs)) ELSE bs

\* EncodeUInt of a uint64 value
EncodeUInt64(u) ==
  LET sig == StripZeros(u)
  IN IF Len(sig) <= 2 THEN EncodeUInt(FromBigEndian(sig))
     ELSE IF Len(sig) <= 4 THEN <<26>> \o SubSeq(u, 5, 8)
     ELSE <<27>> \o u

\* DecodeUInt: [ok, val, rest], val a uint64 value; a non-minimal encoding,
\* another major type and a truncated input are errors
DecodeUInt(bs) ==
  LET bad == [ok |-> FALSE, val |-> U64(0), rest |-> <<>>]
      info == bs[1] % 32
      width == CASE info = 24 -> 1 [] info = 25 -> 2 [] info = 26 -> 4 [] OTHER -> 8
  IN IF bs = <<>> THEN bad
     ELSE IF bs[1] \div 32 # 0 THEN bad
     ELSE IF info < 24 THEN [ok |-> TRUE, val |-> U64(info), rest |-> Tail(bs)]
     ELSE IF info > 27 \/ Len(bs) < 1 + width THEN bad
     ELSE LET arg == SubSeq(bs, 2, 1 + width)
              minimal == CASE info = 24 -> arg[1] >= 24
                           [] info = 25 -> arg[1] # 0
                           [] info = 26 -> arg[1] # 0 \/ arg[2] # 0
                           [] OTHER -> \E k \in 1..4 : arg[k] # 0
          IN IF ~minimal THEN bad
             ELSE [ok |-> TRUE, val |-> Repeat(0, 8 - width) \o arg,
                   rest |-> DropTo(bs, 2 + width)]

DecodeArrayHeader(bs) == DecodeTyped(bs, 4)

DecodeMapHeader(bs) == DecodeTyped(bs, 5)

\* a string item of the given major type: [ok, val, rest]
DecodeString(bs, major) ==
  LET h == DecodeTyped(bs, major)
  IN IF h.ok /\ h.n <= Len(h.rest)
     THEN [ok |-> TRUE, val |-> SubSeq(h.rest, 1, h.n), rest |-> DropTo(h.rest, h.n + 1)]
     ELSE [ok |-> FALSE, val |-> <<>>, rest |-> <<>>]

DecodeByteString(bs) == DecodeString(bs, 2)

DecodeTextString(bs) == DecodeString(bs, 3)

\* the encoder's operation for an item of the given kind
Encode(kind, val) ==
  CASE kind = "uint" -> EncodeUInt64(val)
    [] kind = "bstr" -> EncodeByteString(val)
    [] kind = "tstr" -> EncodeTextString(val)
    [] kind = "array" -> EncodeArrayHeader(val)
    [] OTHER -> CborHeader(5, val)

\* the decoder's operation for an item of the given kind: [ok, val, rest]
Decode(kind, bs) ==
  CASE kind = "uint" -> DecodeUInt(bs)
    [] kind = "bstr" -> DecodeByteString(bs)
    [] kind = "tstr" -> DecodeTextString(bs)
    [] kind = "array" -> [ok |-> DecodeArrayHeader(bs).ok, val |-> DecodeArrayHeader(bs).n,
                          rest |-> DecodeArrayHeader(bs).rest]
    [] OTHER -> [ok |-> DecodeMapHeader(bs).ok, val |-> DecodeMapHeader(bs).n,
                 rest |-> DecodeMapHeader(bs).rest]

(***************************************************************************)
(* Primitives of the Go library the code calls.                            *)
(***************************************************************************)
\* sha256.Size
HashLen == 32

\* a * b modulo 65521, for a and b below 65521, in 32-bit arithmetic
MulMod(a, b) == (((a * (b \div 256)) % 65521) * 256 + a * (b % 256)) % 65521

\* two runs of steps acc -> (acc * 31 + c + 1) % 65521, each given as the one
\* step acc -> (a * acc + b) % 65521 it amounts to, one after the other
FoldCombine(l, r) ==
  [a |-> MulMod(l.a, r.a), b |-> (MulMod(r.a, l.b) + r.b) % 65521]

\* the steps for the bytes lo..hi of bs as one step; the range is halved,
\* which keeps the evaluation shallow
RECURSIVE FoldSegment(_, _, _)
FoldSegment(bs, lo, hi) ==
  IF lo = hi THEN [a |-> 31, b |-> bs[lo] + 1]
  ELSE FoldCombine(FoldSegment(bs, lo, (lo + hi) \div 2),
                   FoldSegment(bs, (lo + hi) \div 2 + 1, hi))

FoldApply(seg, acc) == (MulMod(seg.a, acc) + seg.b) % 65521

\* acc after the step acc -> (acc * 31 + c + 1) % 65521 for each byte c of bs
FoldBytes(bs, acc) ==
  IF bs = <<>> THEN acc ELSE FoldApply(FoldSegment(bs, 1, Len(bs)), acc)

\* sha256.Sum256: a fixed function from byte strings to HashLen bytes (a stand-in
\* for the digest, which the code treats as opaque bytes)
Sha256(bs) ==
  LET f == FoldBytes(bs, 7 + Len(bs))
  IN [k \in 1..HashLen |-> (f + 37 * k + (f \div 256) * k) % 256]

\* one character of a base64 alphabet; c62 and c63 are its last two characters
B64Char(v, c62, c63) ==
  IF v < 26 THEN 65 + v
  ELSE IF v < 52 THEN 97 + (v - 26)
  ELSE IF v < 62 THEN 48 + (v - 52)
  ELSE IF v = 62 THEN c62 ELSE c63

\* base64 without padding over the given alphabet
RECURSIVE Base64Raw(_, _, _)
Base64Raw(bs, c62, c63) ==
  IF bs = <<>> THEN <<>>
  ELSE IF Len(bs) = 1
    THEN <<B64Char(bs[1] \div 4, c62, c63), B64Char((bs[1] % 4) * 16, c62, c63)>>
  ELSE IF Len(bs) = 2
    THEN <<B64Char(bs[1] \div 4, c62, c63),
           B64Char((bs[1] % 4) * 16 + bs[2] \div 16, c62, c63),
           B64Char((bs[2] % 16) * 4, c62, c63)>>
  ELSE <<B64Char(bs[1] \div 4, c62, c63),
         B64Char((bs[1] % 4) * 16 + bs[2] \div 16, c62, c63),
         B64Char((bs[2] % 16) * 4 + bs[3] \div 64, c62, c63),
         B64Char(bs[3] % 64, c62, c63)>> \o Base64Raw(DropTo(bs, 4), c62, c63)

\* base64.RawStdEncoding.EncodeToString
RawStdEncoding(bs) == Base64Raw(bs, 43, 47)

\* base64.RawURLEncoding.EncodeToString
RawURLEncoding(bs) == Base64Raw(bs, 45, 95)

\* textproto: the bytes allowed in a header field name (RFC 7230 token)
ValidHeaderFieldByte(c) ==
  \/ c >= 48 /\ c <= 57
  \/ c >= 65 /\ c <= 90
  \/ c >= 97 /\ c <= 122
  \/ c \in {33, 35, 36, 37, 38, 39, 42, 43, 45, 46, 94, 95, 96, 124, 126}

\* textproto.CanonicalMIMEHeaderKey: a key with a byte that is no token byte is
\* left as it is; otherwise the first letter and each letter after '-' become
\* upper case and the others lower case
CanonicalMIMEHeaderKey(s) ==
  IF \E k \in 1..Len(s) : ~ValidHeaderFieldByte(s[k]) THEN s
  ELSE [k \in 1..Len(s) |->
          LET upper == k = 1 \/ s[k - 1] = 45
              c == s[k]
          IN IF upper /\ c >= 97 /\ c <= 122 THEN c - 32
             ELSE IF ~upper /\ c >= 65 /\ c <= 90 THEN c + 32
             ELSE c]

\* http.Header.Add: the header collection is a map from canonical key to the
\* list of values added under it
HeaderAdd(h, key, value) ==
  LET k == CanonicalMIMEHeaderKey(key)
  IN IF k \in DOMAIN h THEN [h EXCEPT ![k] = Append(@, value)]
     ELSE h @@ (k :> <<value>>)

\* http.Header.Get: the first value under the canonical key, or ""
HeaderGet(h, key) ==
  LET k == CanonicalMIMEHeaderKey(key)
  IN IF k \in DOMAIN h /\ Len(h[k]) > 0 THEN h[k][1] ELSE <<>>

RECURSIVE SetToSeq(_)
SetToSeq(S) ==
  IF S = {} THEN <<>>
  ELSE LET e == CHOOSE e \in S : TRUE IN <<e>> \o SetToSeq(S \ {e})

Reverse(s) == [k \in 1..Len(s) |-> s[Len(s) + 1 - k]]

\* the orders in which a range over the map may visit its keys (Go leaves the
\* order open; the model explores an order and its reverse)
IterOrders(h) == {SetToSeq(DOMAIN h), Reverse(SetToSeq(DOMAIN h))}

(***************************************************************************)
(* Package mice: Merkle Integrity Content Encoding over SHA-256.           *)
(***************************************************************************)
\* the payload cut into consecutive records of rs bytes, the last maybe shorter
RECURSIVE Records(_, _)
Records(p, rs) ==
  IF Len(p) <= rs THEN (IF p = <<>> THEN <<>> ELSE <<p>>)
  ELSE <<SubSeq(p, 1, rs)>> \o Records(DropTo(p, rs + 1), rs)

\* proof of record k (1-based) of recs: the last record's is its hash, an
\* earlier one's the hash of the record, the next proof and a 0 byte
RECURSIVE Proof(_, _)
Proof(recs, k) ==
  IF k >= Len(recs) THEN Sha256(recs[k])
  ELSE Sha256(recs[k] \o Proof(recs, k + 1) \o <<0>>)

\* the records interleaved with the proofs of the records that follow them
RECURSIVE Interleave(_, _)
Interleave(recs, k) ==
  IF k > Len(recs) THEN <<>>
  ELSE IF k = Len(recs) THEN recs[k]
  ELSE recs[k] \o Proof(recs, k + 1) \o Interleave(recs, k + 1)

\* mice.Encode: the encoded payload and the MI header value
MiceEncode(payload, recordSize) ==
  LET recs == Records(payload, recordSize)
      top == IF recs = <<>> THEN Sha256(<<>>) ELSE Proof(recs, 1)
  IN [buf |-> BigEndian(recordSize, 8) \o Interleave(recs, 1),
      mi |-> <<109, 105, 45, 115, 104, 97, 50, 53, 54, 61>> \o RawURLEncoding(top)]

(***************************************************************************)
(* String literals of the code.                                            *)
(***************************************************************************)
S_status == <<58, 115, 116, 97, 116, 117, 115>>                    \* ":status"
S_method == <<58, 109, 101, 116, 104, 111, 100>>                   \* ":method"
S_url == <<58, 117, 114, 108>>                                     \* ":url"
S_GET == <<71, 69, 84>>                                            \* "GET"
S_ContentEncoding ==
  <<67, 111, 110, 116, 101, 110, 116, 45, 69, 110, 99, 111, 100, 105, 110, 103>> \* "Content-Encoding"
S_MI == <<77, 73>>                                                 \* "MI"
S_misha256 == <<109, 105, 45, 115, 104, 97, 50, 53, 54>>           \* "mi-sha256"
S_signedheaders ==
  <<115, 105, 103, 110, 101, 100, 45, 104, 101, 97, 100, 101, 114, 115>> \* "signed-headers"
S_HTTPExchange == <<72, 84, 84, 80, 32, 69, 120, 99, 104, 97, 110, 103, 101>> \* "HTTP Exchange"
S_certSha256 == <<99, 101, 114, 116, 83, 104, 97, 50, 53, 54>>     \* "certSha256"
S_date == <<100, 97, 116, 101>>                                    \* "date"
S_expires == <<101, 120, 112, 105, 114, 101, 115>>                 \* "expires"
S_headers == <<104, 101, 97, 100, 101, 114, 115>>                  \* "headers"
S_htxg == <<104, 116, 120, 103>>                                   \* "htxg"
S_request == <<114, 101, 113, 117, 101, 115, 116>>                 \* "request"
S_response == <<114, 101, 115, 112, 111, 110, 115, 101>>           \* "response"
S_payload == <<112, 97, 121, 108, 111, 97, 100>>                   \* "payload"
S_index == <<105, 110, 100, 101, 120>>                             \* "index"
S_responses == <<114, 101, 115, 112, 111, 110, 115, 101, 115>>     \* "responses"

(***************************************************************************)
(* signedexchange.go.  An Input is [RequestUri, ResponseStatus, Payload];  *)
(* its ResponseHeader is the caller's http.Header, a reference the Input   *)
(* shares with the caller: the operators take that collection as h.        *)
(***************************************************************************)
\* Input.miEncode that leaves the payload as it was
miEncode_PayloadKept(i, h, recordSize) ==
  [input |-> i,
   header |-> HeaderAdd(HeaderAdd(h, S_ContentEncoding, S_misha256), S_MI,
                        MiceEncode(i.Payload, recordSize).mi)]

\* Input.miEncode: the encoded payload replaces the payload, and the two
\* headers are added to the collection
miEncode(i, h, recordSize) ==
  LET enc == MiceEncode(i.Payload, recordSize)
  IN [input |-> [i EXCEPT !.Payload = enc.buf],
      header |-> HeaderAdd(HeaderAdd(h, S_ContentEncoding, S_misha256), S_MI, enc.mi)]

\* NewInput: the Input and the header collection it leaves
NewInput(uri, status, headers, payload, miRecordSize) ==
  miEncode([RequestUri |-> uri, ResponseStatus |-> status, Payload |-> payload],
           headers, miRecordSize)

\* Input.AddSignedHeadersHeader: the header collection it leaves
AddSignedHeadersHeader(h, ks) ==
  LET strs == [k \in 1..Len(ks) |-> <<34>> \o ToLower(ks[k]) \o <<34>>]
      s == Join(strs, <<44, 32>>)
  IN HeaderAdd(h, S_signedheaders, s)

\* Input.parseSignedHeadersHeader
parseSignedHeadersHeader(h) ==
  LET unparsed == HeaderGet(h, S_signedheaders)
      rawks == Split(unparsed, 44)
  IN [k \in 1..Len(rawks) |-> TrimSuffix(TrimPrefix(rawks[k], <<34>>), <<34>>)]

\* encodeCanonicalRequest with the entries left in generation order
encodeCanonicalRequest_GenerationOrder(i) ==
  CborHeader(5, 2)
  \o ConcatEntries(<<GenerateMapEntry(EncodeByteString(S_method), EncodeByteString(S_GET)),
                     GenerateMapEntry(EncodeByteString(S_url), EncodeByteString(i.RequestUri))>>)

encodeCanonicalRequest(i) ==
  EncodeMap(<<GenerateMapEntry(EncodeByteString(S_method), EncodeByteString(S_GET)),
              GenerateMapEntry(EncodeByteString(S_url), EncodeByteString(i.RequestUri))>>)

\* a filter of header names: allKeys, or the names of a map m
allKeys == [all |-> TRUE, m |-> {}]

FilterAccepts(filter, name) == filter.all \/ name \in filter.m

\* the entries encodeResponseHeader generates, in generation order: :status,
\* then one entry per key of the collection the filter accepts, visited in
\* the order `order`, with the key in lower case and the first value
responseHeaderEntries(i, h, order, filter) ==
  LET accepted == SelectSeq(order, LAMBDA name : FilterAccepts(filter, name))
  IN <<GenerateMapEntry(EncodeByteString(S_status),
                        EncodeByteString(Itoa(i.ResponseStatus)))>>
     \o [k \in 1..Len(accepted) |->
           GenerateMapEntry(EncodeByteString(ToLower(accepted[k])),
                            EncodeByteString(h[accepted[k]][1]))]

\* encodeResponseHeader writing the entries as generated, not through EncodeMap
encodeResponseHeader_Unsorted(i, h, order, filter) ==
  CborHeader(5, Len(responseHeaderEntries(i, h, order, filter)))
  \o ConcatEntries(responseHeaderEntries(i, h, order, filter))

encodeResponseHeader(i, h, order, filter) ==
  EncodeMap(responseHeaderEntries(i, h, order, filter))

\* the filter encodeCanonicalExchangeHeaders builds from signed-headers: the
\* header name as the collection holds it is looked up among the parsed names
signedHeadersFilter(h) == [all |-> FALSE, m |-> Range(parseSignedHeadersHeader(h))]

encodeCanonicalExchangeHeaders(i, h, order) ==
  EncodeArrayHeader(2)
  \o encodeCanonicalRequest(i)
  \o encodeResponseHeader(i, h, order, signedHeadersFilter(h))


\* WriteExchangeFile with the signed-headers filter in the response slot
WriteExchangeFile_Filtered(i, h, order) ==
  EncodeArrayHeader(7)
  \o EncodeTextString(S_htxg)
  \o EncodeTextString(S_request)
  \o encodeCanonicalRequest(i)
  \o EncodeTextString(S_response)
  \o encodeResponseHeader(i, h, order, signedHeadersFilter(h))
  \o EncodeTextString(S_payload)
  \o EncodeByteString(i.Payload)

WriteExchangeFile(i, h, order) ==
  EncodeArrayHeader(7)
  \o EncodeTextString(S_htxg)
  \o EncodeTextString(S_request)
  \o encodeCanonicalRequest(i)
  \o EncodeTextString(S_response)
  \o encodeResponseHeader(i, h, order, allKeys)
  \o EncodeTextString(S_payload)
  \o EncodeByteString(i.Payload)

(***************************************************************************)
(* The signing-algorithm dispatch.  A private key is [type, bits, curve];  *)
(* the result is the pair (algorithm, error) the function returns.         *)
(***************************************************************************)
NoAlg == [kind |-> "nil", hash |-> "nil"]

NoErr == "nil"


\* signerForPrivateKey taking every RSA key of 2048 bits or more
signerForPrivateKey_AtLeast2048(pk) ==
  IF pk.type = "rsa"
    THEN IF pk.bits >= 2048
           THEN [alg |-> [kind |-> "rsaPSS", hash |-> "SHA256"], err |-> NoErr]
           ELSE [alg |-> NoAlg, err |-> "unsupported RSA key size"]
  ELSE IF pk.type = "ecdsa"
    THEN IF pk.curve = "P-256"
           THEN [alg |-> [kind |-> "ecdsa", hash |-> "SHA256"], err |-> NoErr]
         ELSE IF pk.curve = "P-384"
           THEN [alg |-> [kind |-> "ecdsa", hash |-> "SHA384"], err |-> NoErr]
         ELSE [alg |-> NoAlg, err |-> "unknown ECDSA curve"]
  ELSE [alg |-> NoAlg, err |-> "unknown public key type"]

\* signerForPrivateKey, the dispatch Signer.sign calls
signerForPrivateKey(pk) ==
  IF pk.type = "rsa"
    THEN IF pk.bits = 2048
           THEN [alg |-> [kind |-> "rsaPSS", hash |-> "SHA256"], err |-> NoErr]
           ELSE [alg |-> NoAlg, err |-> "unsupported RSA key size"]
  ELSE IF pk.type = "ecdsa"
    THEN IF pk.curve = "P-256"
           THEN [alg |-> [kind |-> "ecdsa", hash |-> "SHA256"], err |-> NoErr]
         ELSE IF pk.curve = "P-384"
           THEN [alg |-> [kind |-> "ecdsa", hash |-> "SHA384"], err |-> NoErr]
         ELSE [alg |-> NoAlg, err |-> "unknown ECDSA curve"]
  ELSE [alg |-> NoAlg, err |-> "unknown public key type"]

\* SigningAlgorithmForPrivateKey(pk)
SigningAlgorithmForPrivateKey(pk) ==
  IF pk.type = "rsa"
    THEN IF pk.bits = 2048
           THEN [alg |-> [kind |-> "rsaPSS", hash |-> "SHA256"], err |-> NoErr]
           ELSE [alg |-> NoAlg, err |-> "unsupported RSA key size"]
  ELSE IF pk.type = "ecdsa"
    THEN IF pk.curve = "P-256"
           THEN [alg |-> [kind |-> "ecdsa", hash |-> "SHA256"], err |-> NoErr]
         ELSE IF pk.curve = "P-384"
           THEN [alg |-> [kind |-> "ecdsa", hash |-> "SHA384"], err |-> NoErr]
         ELSE [alg |-> NoAlg, err |-> "unknown ECDSA curve"]
  ELSE [alg |-> NoAlg, err |-> "unknown public key type"]

\* SigningAlgorithmForPrivateKey(pk, rand), the variant with an injected
\* randomness source
SigningAlgorithmForPrivateKeyRand(pk) ==
  IF pk.type = "rsa"
    THEN IF pk.bits = 2048
           THEN [alg |-> [kind |-> "rsaPSS", hash |-> "SHA256"], err |-> NoErr]
           ELSE [alg |-> NoAlg, err |-> "unsupported RSA key size"]
  ELSE IF pk.type = "ecdsa"
    THEN IF pk.curve = "P-256"
           THEN [alg |-> [kind |-> "ecdsa", hash |-> "SHA256"], err |-> NoErr]
         ELSE IF pk.curve = "secp256k1"
           THEN [alg |-> [kind |-> "ecdsaS256", hash |-> "SHA256"], err |-> NoErr]
         ELSE IF pk.curve = "P-384"
           THEN [alg |-> [kind |-> "ecdsa", hash |-> "SHA384"], err |-> NoErr]
         ELSE [alg |-> NoAlg, err |-> "unknown ECDSA curve"]
  ELSE [alg |-> NoAlg, err |-> "unknown public key type"]

\* signer.sign of the algorithm Signer.sign got: `outcome` is what the signing
\* primitive returns ([ok, sig]); the ECDSA signer marshals a struct whose
\* fields r, s are unexported, which asn1.Marshal refuses
AlgSign(alg, outcome) ==
  IF alg.kind = "ecdsa" THEN [ok |-> FALSE, sig |-> <<>>] ELSE outcome

(***************************************************************************)
(* signer.go.  A Signer is [Date, Expires, Certs, CertUrl, PrivKey]: the   *)
(* times in seconds since the epoch, Certs the certificates' DER bytes.    *)
(***************************************************************************)
\* Signer.certSha256: nil without certificates
certSha256(s) == IF Len(s.Certs) = 0 THEN <<>> ELSE Sha256(s.Certs[1])


\* signedMessageEntries with the certSha256 entry generated unconditionally
signedMessageEntries_AlwaysCert(s, i, h, order) ==
  <<GenerateMapEntry(EncodeTextString(S_certSha256), EncodeByteString(certSha256(s))),
    GenerateMapEntry(EncodeTextString(S_date), EncodeInt(s.Date)),
    GenerateMapEntry(EncodeTextString(S_expires), EncodeInt(s.Expires)),
    GenerateMapEntry(EncodeTextString(S_headers),
                     encodeCanonicalExchangeHeaders(i, h, order))>>

\* the map entries serializeSignedMessage generates, in generation order
signedMessageEntries(s, i, h, order) ==
  (IF Len(certSha256(s)) > 0
     THEN <<GenerateMapEntry(EncodeTextString(S_certSha256),
                             EncodeByteString(certSha256(s)))>>
     ELSE <<>>)
  \o <<GenerateMapEntry(EncodeTextString(S_date), EncodeInt(s.Date)),
       GenerateMapEntry(EncodeTextString(S_expires), EncodeInt(s.Expires)),
       GenerateMapEntry(EncodeTextString(S_headers),
                        encodeCanonicalExchangeHeaders(i, h, order))>>

\* Signer.serializeSignedMessage
serializeSignedMessage(s, i, h, order) ==
  Repeat(32, 64) \o S_HTTPExchange \o <<0>>
  \o EncodeMap(signedMessageEntries(s, i, h, order))

\* Signer.sign: [sig, err, msg], msg the message it built (<<>> if none)
sign(s, i, h, order, outcome) ==
  LET d == signerForPrivateKey(s.PrivKey)
      msg == serializeSignedMessage(s, i, h, order)
      r == AlgSign(d.alg, outcome)
  IN IF d.err # NoErr THEN [sig |-> <<>>, err |-> TRUE, msg |-> <<>>]
     ELSE IF ~r.ok THEN [sig |-> <<>>, err |-> TRUE, msg |-> msg]
     ELSE [sig |-> r.sig, err |-> FALSE, msg |-> msg]

\* the map entries serializeSignedMessage generates when the call of
\* encodeCanonicalExchangeHeaders in the "headers" entry fails after it wrote
\* `written` bytes: the call's error is not looked at, and the entry keeps
\* what was written
signedMessageEntriesFailing(s, i, h, order, written) ==
  [signedMessageEntries(s, i, h, order)
     EXCEPT ![Len(signedMessageEntries(s, i, h, order))].value = SubSeq(@, 1, written)]

\* Signer.sign when that call fails: [sig, err, msg]
signFailing(s, i, h, order, outcome, written) ==
  LET d == signerForPrivateKey(s.PrivKey)
      msg == Repeat(32, 64) \o S_HTTPExchange \o <<0>>
             \o EncodeMap(signedMessageEntriesFailing(s, i, h, order, written))
      r == AlgSign(d.alg, outcome)
  IN IF d.err # NoErr THEN [sig |-> <<>>, err |-> TRUE, msg |-> <<>>]
     ELSE IF ~r.ok THEN [sig |-> <<>>, err |-> TRUE, msg |-> msg]
     ELSE [sig |-> r.sig, err |-> FALSE, msg |-> msg]

\* the pieces of the format string of SignatureHeaderValue
F_sig == <<115, 105, 103, 61, 42>>                                  \* sig=*
F_integrity == <<59, 32, 105, 110, 116, 101, 103, 114, 105, 116, 121, 61, 34>> \* ; integrity="
F_certUrl == <<34, 59, 32, 99, 101, 114, 116, 85, 114, 108, 61, 34>> \* "; certUrl="
F_certSha256 ==
  <<34, 59, 32, 99, 101, 114, 116, 83, 104, 97, 50, 53, 54, 61, 42>> \* "; certSha256=*
F_date == <<59, 32, 100, 97, 116, 101, 61>>                          \* ; date=
F_expires == <<59, 32, 101, 120, 112, 105, 114, 101, 115, 61>>       \* ; expires=
S_mi == <<109, 105>>                                                 \* "mi"

\* Signer.SignatureHeaderValue: [value, err, msg]
SignatureHeaderValue(s, i, h, order, outcome) ==
  LET r == sign(s, i, h, order, outcome)
  IN IF r.err THEN [value |-> <<>>, err |-> TRUE, msg |-> r.msg]
     ELSE [value |-> F_sig \o RawStdEncoding(r.sig)
                     \o F_integrity \o S_mi
                     \o F_certUrl \o s.CertUrl
                     \o F_certSha256 \o RawStdEncoding(certSha256(s))
                     \o F_date \o Itoa(s.Date)
                     \o F_expires \o Itoa(s.Expires),
           err |-> FALSE, msg |-> r.msg]

(***************************************************************************)
(* bundle.go.  An Exchange is [RequestUri, ResponseStatus, ResponseHeader, *)
(* Payload]; a Bundle is the sequence of its Exchanges.                    *)
(***************************************************************************)
HeaderMagicBytes == <<132, 72, 240, 159, 140, 144, 240, 159, 147, 166>>

\* Exchange.EncodeRequestWithHeaders: the canonical request map (the
\* Exchanges of the model carry no request header)
EncodeRequestWithHeaders(e) == encodeCanonicalRequest(e)

\* signedexchange.WriteResponseHeaders: the response-header map, no filter
WriteResponseHeaders(e) ==
  encodeResponseHeader(e, e.ResponseHeader, SetToSeq(DOMAIN e.ResponseHeader), allKeys)

\* Exchange.Payload
ExchangePayload(e) == e.Payload

\* &indexSection{}: no entry, bytes nil (the model keeps nil as <<>>)
NewIndexSection == [mes |-> <<>>, bytes |-> <<>>]

\* indexSection.addExchange
indexSectionAddExchange(is, e, offset, length) ==
  [is EXCEPT !.mes =
     Append(@, GenerateMapEntry(EncodeRequestWithHeaders(e),
                                EncodeArrayHeader(2) \o EncodeUInt(offset)
                                                     \o EncodeUInt(length)))]

\* indexSection.Finalize
Finalize(is) == [is EXCEPT !.bytes = EncodeMap(is.mes)]

\* newResponsesSection
newResponsesSection(n) == [buf |-> EncodeArrayHeader(n)]


\* responsesSection.addExchange returning the buffer's length as the length
responsesSectionAdded_WholeLength(offset, buf) ==
  [rs |-> [buf |-> buf], offset |-> offset, length |-> Len(buf)]

\* responsesSection.addExchange, its last two lines: buf is rs.buf with the
\* exchange written to it
responsesSectionAdded(offset, buf) ==
  [rs |-> [buf |-> buf], offset |-> offset, length |-> Len(buf) - offset]

\* responsesSection.addExchange: [rs, offset, length]
responsesSectionAddExchange(rs, e) ==
  responsesSectionAdded(Len(rs.buf),
                        rs.buf \o EncodeArrayHeader(2)
                               \o EncodeByteString(WriteResponseHeaders(e))
                               \o EncodeByteString(ExchangePayload(e)))

\* addExchange, given what responsesSection.addExchange returned
indexAddExchange(is, e, r) ==
  [is |-> indexSectionAddExchange(is, e, r.offset, r.length), rs |-> r.rs]

\* addExchange: [is, rs]
addExchange(is, rs, e) == indexAddExchange(is, e, responsesSectionAddExchange(rs, e))

\* the loop of WriteTo over b.Exchanges: [is, rs]
RECURSIVE addExchanges(_, _)
addExchanges(st, es) ==
  IF es = <<>> THEN st
  ELSE addExchanges(addExchange(st.is, st.rs, Head(es)), Tail(es))


\* AddSectionOrdered with the last section's length left out of the offset
AddSectionOrdered_NoLength(so, name, length) ==
  LET offset == IF Len(so) > 0 THEN so[Len(so)].Offset ELSE U64(0)
  IN Append(so, [Name |-> name, Offset |-> offset, Length |-> length])

\* sectionOffsets.AddSectionOrdered: length and the offsets are uint64 values
AddSectionOrdered(so, name, length) ==
  LET offset == IF Len(so) > 0
                  THEN AddU64(so[Len(so)].Offset, so[Len(so)].Length)
                  ELSE U64(0)
  IN Append(so, [Name |-> name, Offset |-> offset, Length |-> length])

\* sectionOffsets.FindSection: is there a section of that name
FindSection(so, name) == \E k \in 1..Len(so) : so[k].Name = name

\* writeSectionOffsets: the bytes it writes
writeSectionOffsets(so) ==
  EncodeByteString(
    EncodeMap([k \in 1..Len(so) |->
                 GenerateMapEntry(EncodeTextString(so[k].Name),
                                  EncodeArrayHeader(2) \o EncodeUInt64(so[k].Offset)
                                                       \o EncodeUInt64(so[k].Length))]))

\* writeSectionHeader: the bytes it writes
writeSectionHeader(numSections) == EncodeArrayHeader(numSections)

footerLength == 9


\* writeFooter with the footer's own length left out of the size
writeFooter_NoFooterLength(offset) == EncodeByteString(BigEndian(offset, 8))

\* writeFooter: the bytes it writes
writeFooter(offset) == EncodeByteString(BigEndian(offset + footerLength, 8))

\* NewCountingWriter and CountingWriter.Write: the sink's bytes and their count
NewCountingWriter == [buf |-> <<>>, Written |-> 0]

CountingWrite(cw, p) == [buf |-> cw.buf \o p, Written |-> cw.Written + Len(p)]

\* Bundle.WriteTo, the end: the footer is written at the count reached, and
\* the final count is returned
WriteToFooter(cw, is, rs, so) ==
  [out |-> CountingWrite(cw, writeFooter(cw.Written)).buf,
   n |-> CountingWrite(cw, writeFooter(cw.Written)).Written,
   is |-> is, rs |-> rs, so |-> so]

\* Bundle.WriteTo, the writes to the counting writer before the footer
WriteToSections(is, rs, so) ==
  WriteToFooter(
    CountingWrite(
      CountingWrite(
        CountingWrite(
          CountingWrite(
            CountingWrite(NewCountingWriter, HeaderMagicBytes),
            writeSectionOffsets(so)),
          writeSectionHeader(Len(so))),
        is.bytes),
      rs.buf),
    is, rs, so)

\* Bundle.WriteTo, the section offsets of the two staged sections
WriteToOffsets(is, rs) ==
  WriteToSections(is, rs,
                  AddSectionOrdered(AddSectionOrdered(<<>>, S_index, U64(Len(is.bytes))),
                                    S_responses, U64(Len(rs.buf))))

\* Bundle.WriteTo, the index finalized after the loop
WriteToFinalize(st) == WriteToOffsets(Finalize(st.is), st.rs)

\* Bundle.WriteTo on a sink that takes every byte: what reaches the sink, the
\* count it returns, and the staging areas and section offsets it built
WriteTo(b) ==
  WriteToFinalize(addExchanges([is |-> NewIndexSection, rs |-> newResponsesSection(Len(b))], b))

\* an error of decodeSectionOffsetsCBOR
DecodeFailed(err) == [ok |-> FALSE, err |-> err, so |-> <<>>]

\* decodeSectionOffsetsCBOR with the FindSection test left out
RECURSIVE decodeSectionOffsetEntries_NoFindSection(_, _, _)
decodeSectionOffsetEntries_NoFindSection(bs, n, so) ==
  LET name == DecodeTextString(bs)
      m == DecodeArrayHeader(name.rest)
      offset == DecodeUInt(m.rest)
      length == DecodeUInt(offset.rest)
  IN IF n = 0 THEN [ok |-> TRUE, err |-> "", so |-> so]
     ELSE IF ~name.ok THEN DecodeFailed("map key")
     ELSE IF ~m.ok THEN DecodeFailed("map value")
     ELSE IF m.n # 2 THEN DecodeFailed("array of invalid length")
     ELSE IF ~offset.ok THEN DecodeFailed("offset")
     ELSE IF ~length.ok THEN DecodeFailed("length")
     ELSE decodeSectionOffsetEntries_NoFindSection(
            length.rest, n - 1,
            Append(so, [Name |-> name.val, Offset |-> offset.val, Length |-> length.val]))

\* decodeSectionOffsetsCBOR, the loop over the n entries: [ok, err, so]
RECURSIVE decodeSectionOffsetEntries(_, _, _)
decodeSectionOffsetEntries(bs, n, so) ==
  LET name == DecodeTextString(bs)
      m == DecodeArrayHeader(name.rest)
      offset == DecodeUInt(m.rest)
      length == DecodeUInt(offset.rest)
  IN IF n = 0 THEN [ok |-> TRUE, err |-> "", so |-> so]
     ELSE IF ~name.ok THEN DecodeFailed("map key")
     ELSE IF FindSection(so, name.val) THEN DecodeFailed("duplicated section")
     ELSE IF ~m.ok THEN DecodeFailed("map value")
     ELSE IF m.n # 2 THEN DecodeFailed("array of invalid length")
     ELSE IF ~offset.ok THEN DecodeFailed("offset")
     ELSE IF ~length.ok THEN DecodeFailed("length")
     ELSE decodeSectionOffsetEntries(
            length.rest, n - 1,
            Append(so, [Name |-> name.val, Offset |-> offset.val, Length |-> length.val]))

\* decodeSectionOffsetsCBOR: [ok, err, so]
decodeSectionOffsetsCBOR(bs) ==
  LET h == DecodeMapHeader(bs)
  IN IF ~h.ok THEN DecodeFailed("map header")
     ELSE decodeSectionOffsetEntries(h.rest, h.n, <<>>)

\* parseIndexSection: its body is empty; taken to return no error
parseIndexSection(sectionContents) == TRUE

knownSections == {S_index, S_responses}

\* loadMetadata, step 12, the loop over the sections from entry k on: "" when
\* every section passed, the error of the first that did not, or "panic"
\* when the slice bs[offset:end] has offset > end
RECURSIVE loadSections(_, _, _, _)
loadSections(bs, so, sectionsStart, k) ==
  LET e == so[k]
      offset == AddU64(sectionsStart, e.Offset)
      end == AddU64(offset, e.Length)
  IN IF k > Len(so) THEN ""
     ELSE IF e.Name \notin knownSections THEN loadSections(bs, so, sectionsStart, k + 1)
     ELSE IF e.Name = S_responses THEN loadSections(bs, so, sectionsStart, k + 1)
     ELSE IF LeqU64(U64(Len(bs)), offset) THEN "offset out-of-range"
     ELSE IF LeqU64(U64(Len(bs)), end) THEN "end out-of-range"
     ELSE IF ~LeqU64(offset, end) THEN "panic"
     ELSE IF ~parseIndexSection(SubSeq(bs, ToNat(offset) + 1, ToNat(end)))
       THEN "index section"
     ELSE loadSections(bs, so, sectionsStart, k + 1)

NoMeta == [sectionOffsets |-> <<>>, sectionsStart |-> U64(0)]

\* what loadMetadata returns with an error
LoadFailed(err) ==
  [res |-> IF err = "panic" THEN "panic" ELSE "error", err |-> err, meta |-> NoMeta]

\* loadMetadata after the magic: the byte string, the map in it, the sections
loadSectionOffsets(bs) ==
  LET sobytes == DecodeByteString(DropTo(bs, Len(HeaderMagicBytes) + 1))
      so == decodeSectionOffsetsCBOR(sobytes.val)
      sectionsStart == AddU64(U64(12), U64(Len(sobytes.val)))
      res == loadSections(bs, so.so, sectionsStart, 1)
  IN IF ~sobytes.ok THEN LoadFailed("sectionOffset byte string")
     ELSE IF ~so.ok THEN LoadFailed(so.err)
     ELSE IF res # "" THEN LoadFailed(res)
     ELSE [res |-> "ok", err |-> "",
           meta |-> [sectionOffsets |-> so.so, sectionsStart |-> sectionsStart]]

\* loadMetadata without the comparison of the magic
loadMetadata_NoMagicCompare(bs) ==
  IF Len(bs) < Len(HeaderMagicBytes) THEN LoadFailed("EOF")
  ELSE loadSectionOffsets(bs)

\* loadMetadata: [res, err, meta], res "ok", "error" or "panic"; meta only
\* with "ok"
loadMetadata(bs) ==
  IF Len(bs) < Len(HeaderMagicBytes) THEN LoadFailed("EOF")
  ELSE IF SubSeq(bs, 1, Len(HeaderMagicBytes)) # HeaderMagicBytes
    THEN LoadFailed("magic mismatch")
  ELSE loadSectionOffsets(bs)

(***************************************************************************)
(* The inputs the callers of the model draw from.                          *)
(***************************************************************************)
S_Signature == <<83, 105, 103, 110, 97, 116, 117, 114, 101>>       \* "Signature"
S_ContentType == <<67, 111, 110, 116, 101, 110, 116, 45, 84, 121, 112, 101>> \* "Content-Type"
S_contenttype == <<99, 111, 110, 116, 101, 110, 116, 45, 116, 121, 112, 101>> \* "content-type"
S_texthtml == <<116, 101, 120, 116, 47, 104, 116, 109, 108>>       \* "text/html"
S_gzip == <<103, 122, 105, 112>>                                   \* "gzip"
U1 == <<104, 116, 116, 112, 115, 58, 47, 47, 97, 46, 98, 47>>      \* "https://a.b/"
U2 == <<104, 116, 116, 112, 115, 58, 47, 47, 97, 46, 98, 47, 99, 63, 100>> \* "https://a.b/c?d"
CertUrl1 == <<104, 116, 116, 112, 115, 58, 47, 47, 97, 46, 98, 47, 99, 101, 114, 116>> \* "https://a.b/cert"
ValidityUrl1 == <<104, 116, 116, 112, 115, 58, 47, 47, 97, 46, 98, 47, 118>> \* "https://a.b/v"
P_ABCDEFGH == <<65, 66, 67, 68, 69, 70, 71, 72>>                   \* "ABCDEFGH"
P_ABC == <<65, 66, 67>>                                            \* "ABC"
CertDER1 == <<48, 130, 1, 2>>
CertDER2 == <<48, 130, 3, 4>>

EmptyHeader == [k \in {} |-> <<>>]

\* the header collections a caller passes to NewInput: one with Content-Type
\* added through Add, one that already carries a Content-Encoding, and one
\* whose key was set in the map directly, in lower case
CallerHeaders ==
  { HeaderAdd(EmptyHeader, S_ContentType, S_texthtml),
    HeaderAdd(HeaderAdd(EmptyHeader, S_ContentType, S_texthtml), S_ContentEncoding, S_gzip),
    (S_contenttype :> <<S_texthtml>>) }

\* (uri, status, payload, miRecordSize) of a NewInput call
InputArgs ==
  { [uri |-> U1, status |-> 200, payload |-> <<>>, rs |-> 16],
    [uri |-> U2, status |-> 404, payload |-> P_ABCDEFGH, rs |-> 4] }

\* the name lists a caller passes to AddSignedHeadersHeader
SignedHeaderLists ==
  { <<>>, <<S_contenttype>>, <<S_ContentType, S_MI>>, <<S_status, S_contenttype>> }

RSA2048 == [type |-> "rsa", bits |-> 2048, curve |-> "nil"]

Keys ==
  { RSA2048,
    [type |-> "rsa", bits |-> 1024, curve |-> "nil"],
    [type |-> "rsa", bits |-> 2047, curve |-> "nil"],
    [type |-> "rsa", bits |-> 4096, curve |-> "nil"],
    [type |-> "ecdsa", bits |-> 0, curve |-> "P-224"],
    [type |-> "ecdsa", bits |-> 0, curve |-> "P-256"],
    [type |-> "ecdsa", bits |-> 0, curve |-> "P-384"],
    [type |-> "ecdsa", bits |-> 0, curve |-> "P-521"],
    [type |-> "ecdsa", bits |-> 0, curve |-> "secp256k1"],
    [type |-> "ed25519", bits |-> 0, curve |-> "nil"],
    [type |-> "nil", bits |-> 0, curve |-> "nil"] }

\* the Signers of the model: the test's (2018-01-31T17:13:20Z, one hour), one
\* without certificates and with a date before the epoch, one with an ECDSA
\* key and one with a short RSA key
SignerTest ==
  [Date |-> 1517418800, Expires |-> 1517422400, Certs |-> <<CertDER1, CertDER2>>,
   CertUrl |-> CertUrl1, PrivKey |-> RSA2048]

SignerNoCerts ==
  [Date |-> 0 - 1, Expires |-> 3599, Certs |-> <<>>,
   CertUrl |-> CertUrl1, PrivKey |-> RSA2048]

SignerECDSA ==
  [Date |-> 1517418800, Expires |-> 1517422400, Certs |-> <<CertDER1>>,
   CertUrl |-> CertUrl1, PrivKey |-> [type |-> "ecdsa", bits |-> 0, curve |-> "P-256"]]

SignerShortRSA ==
  [Date |-> 1517418800, Expires |-> 1517422400, Certs |-> <<CertDER1>>,
   CertUrl |-> CertUrl1, PrivKey |-> [type |-> "rsa", bits |-> 1024, curve |-> "nil"]]

\* the calls of SignatureHeaderValue the model makes: the Signer, the validity
\* URL the caller supplies with it (<<>>: none) and what the signing primitive
\* returns, a signature (opaque bytes) or an error
SignCalls ==
  { [signer |-> SignerTest, validityUrl |-> ValidityUrl1,
     outcome |-> [ok |-> TRUE, sig |-> <<1, 2, 3, 4>>]],
    [signer |-> SignerNoCerts, validityUrl |-> <<>>,
     outcome |-> [ok |-> TRUE, sig |-> <<250, 251, 252, 253, 254>>]],
    [signer |-> SignerTest, validityUrl |-> <<>>,
     outcome |-> [ok |-> FALSE, sig |-> <<>>]],
    [signer |-> SignerECDSA, validityUrl |-> ValidityUrl1,
     outcome |-> [ok |-> TRUE, sig |-> <<1, 2, 3, 4>>]],
    [signer |-> SignerShortRSA, validityUrl |-> <<>>,
     outcome |-> [ok |-> TRUE, sig |-> <<1, 2, 3, 4>>]] }

\* the Exchanges a Bundle of the model is made of: two of them share a URL,
\* one has no header and no payload, one has a payload of 30 bytes
P_30 == [k \in 1..30 |-> 96 + k]

Exchanges ==
  { [RequestUri |-> U1, ResponseStatus |-> 200,
     ResponseHeader |-> HeaderAdd(EmptyHeader, S_ContentType, S_texthtml),
     Payload |-> P_ABC],
    [RequestUri |-> U2, ResponseStatus |-> 404,
     ResponseHeader |-> EmptyHeader, Payload |-> <<>>],
    [RequestUri |-> U1, ResponseStatus |-> 200,
     ResponseHeader |-> HeaderAdd(EmptyHeader, S_ContentType, S_texthtml),
     Payload |-> P_30] }

\* the section names a caller of AddSectionOrdered uses: the two known ones
\* and one of 250 bytes
S_long == [k \in 1..250 |-> 120]

SectionNames == {S_index, S_responses, S_long}

\* the section lengths a caller of AddSectionOrdered passes (lengths of
\* staged sections)
SectionLengths == {U64(0), U64(300)}

\* how many bytes follow the section-offsets byte string in a buffer a
\* caller hands to loadMetadata
Fills == {0, 300, 700}

\* the items a caller of the encoder writes: unsigned integers (uint64
\* values), byte and text strings, array and map headers (counts)
Items ==
  [kind : {"uint"},
   val : { U64(0), U64(23), U64(24), U64(255), U64(256), U64(65535), U64(65536),
           <<0, 0, 0, 0, 255, 255, 255, 255>>, <<0, 0, 0, 1, 0, 0, 0, 0>>,
           <<255, 255, 255, 255, 255, 255, 255, 255>> }]
    \cup [kind : {"bstr", "tstr"},
          val : {Repeat(97, n) : n \in {0, 23, 24, 255, 256, 65535, 65536}}]
    \cup [kind : {"array", "map"},
          val : {0, 23, 24, 255, 256, 65535, 65536, 2147483647}]

\* heads whose argument is not in shortest form, by the kind of item read
NonMinimalInputs ==
  { [kind |-> "uint", bs |-> <<24, 23>>],
    [kind |-> "uint", bs |-> <<25, 0, 255>>],
    [kind |-> "uint", bs |-> <<26, 0, 0, 255, 255>>],
    [kind |-> "uint", bs |-> <<27, 0, 0, 0, 0, 255, 255, 255, 255>>],
    [kind |-> "uint", bs |-> <<27, 0, 0, 0, 0, 0, 0, 0, 0>>],
    [kind |-> "bstr", bs |-> <<88, 3, 1, 2, 3>>],
    [kind |-> "bstr", bs |-> <<89, 0, 24>> \o Repeat(7, 24)],
    [kind |-> "tstr", bs |-> <<122, 0, 0, 0, 1, 97>>],
    [kind |-> "tstr", bs |-> <<123, 0, 0, 0, 0, 0, 0, 0, 1, 97>>],
    [kind |-> "array", bs |-> <<152, 2>>],
    [kind |-> "array", bs |-> <<153, 0, 255>>],
    [kind |-> "map", bs |-> <<184, 0>>],
    [kind |-> "map", bs |-> <<186, 0, 0, 1, 0>>] }

\* the payloads a caller of NewInput passes, every byte of one different
Payloads == {[k \in 1..n |-> 64 + k] : n \in 0..MaxPayload}

\* the pre-encoded (key bytes, value bytes) entries a caller of EncodeMap
\* passes: among the keys, one is a proper prefix of another
MapEntries ==
  { GenerateMapEntry(<<65>>, <<1>>), GenerateMapEntry(<<66, 0>>, <<2>>),
    GenerateMapEntry(<<65, 65>>, <<3>>), GenerateMapEntry(<<64, 255>>, <<>>) }

\* the lists of entries with distinct keys, in every order
MapInputs ==
  UNION { {mes \in [1..n -> MapEntries] :
             \A j \in 1..n, k \in 1..n : mes[j] = mes[k] => j = k} :
          n \in 0..MaxMapEntries }

\* the filters a caller of encodeResponseHeader passes
Filters == {allKeys, [all |-> FALSE, m |-> {S_ContentType, S_MI}]}

(***************************************************************************)
(* State.                                                                  *)
(***************************************************************************)
VARIABLES
  header,    \* the caller's http.Header, which every Input made from it shares
  input,     \* the Input the last NewInput returned
  ncalls,    \* how many times NewInput was called on the collection
  exchanges, \* Bundle.Exchanges
  so,        \* a sectionOffsets list under construction
  last       \* the last operation, its arguments and what it returned

vars == <<header, input, ncalls, exchanges, so, last>>

sxvars == <<header, input, ncalls>>

bvars == <<exchanges, so>>

NoInput == [RequestUri |-> <<>>, ResponseStatus |-> 0, Payload |-> <<>>]

(***************************************************************************)
(* The signed-exchange pipeline.                                           *)
(***************************************************************************)
Init ==
  /\ header \in CallerHeaders
  /\ input = NoInput
  /\ ncalls = 0
  /\ exchanges = <<>>
  /\ so = <<>>
  /\ last = [op |-> "none"]

\* the caller calls NewInput with the header collection
CallNewInput ==
  \E a \in InputArgs :
    /\ ncalls < MaxNewInput
    /\ LET r == NewInput(a.uri, a.status, header, a.payload, a.rs)
       IN /\ input' = r.input
          /\ header' = r.header
          /\ last' = [op |-> "NewInput", args |-> a, before |-> header]
    /\ ncalls' = ncalls + 1
    /\ UNCHANGED bvars

\* the caller calls AddSignedHeadersHeader on the Input (once)
CallAddSignedHeadersHeader ==
  \E ks \in SignedHeaderLists :
    /\ ncalls > 0
    /\ CanonicalMIMEHeaderKey(S_signedheaders) \notin DOMAIN header
    /\ header' = AddSignedHeadersHeader(header, ks)
    /\ last' = [op |-> "AddSignedHeadersHeader", ks |-> ks]
    /\ UNCHANGED <<input, ncalls>>
    /\ UNCHANGED bvars

\* SignatureHeaderValue that adds the value it made to the Input's headers
CallSignatureHeaderValue_AddsHeader ==
  \E c \in SignCalls, order \in IterOrders(header) :
    /\ ncalls > 0
    /\ last' = [op |-> "SignatureHeaderValue", signer |-> c.signer,
                validityUrl |-> c.validityUrl, outcome |-> c.outcome,
                res |-> SignatureHeaderValue(c.signer, input, header, order, c.outcome),
                exch |-> encodeCanonicalExchangeHeaders(input, header, order)]
    /\ header' = HeaderAdd(header, S_Signature,
                           SignatureHeaderValue(c.signer, input, header, order, c.outcome).value)
    /\ UNCHANGED <<input, ncalls>>
    /\ UNCHANGED bvars

\* the caller calls SignatureHeaderValue of a Signer on the Input
CallSignatureHeaderValue ==
  \E c \in SignCalls, order \in IterOrders(header) :
    /\ ncalls > 0
    /\ last' = [op |-> "SignatureHeaderValue", signer |-> c.signer,
                validityUrl |-> c.validityUrl, outcome |-> c.outcome,
                res |-> SignatureHeaderValue(c.signer, input, header, order, c.outcome),
                exch |-> encodeCanonicalExchangeHeaders(input, header, order)]
    /\ UNCHANGED sxvars
    /\ UNCHANGED bvars

\* the caller calls Signer.sign, and the encoder of the "headers" value
\* fails at its first write
CallSignFailing ==
  \E c \in SignCalls, order \in IterOrders(header), written \in {0} :
    /\ ncalls > 0
    /\ last' = [op |-> "signFailing", signer |-> c.signer, written |-> written,
                res |-> signFailing(c.signer, input, header, order, c.outcome, written)]
    /\ UNCHANGED sxvars
    /\ UNCHANGED bvars

\* the caller adds the value it got as the Signature header (once)
CallAddSignature ==
  /\ last.op = "SignatureHeaderValue"
  /\ ~last.res.err
  /\ S_Signature \notin DOMAIN header
  /\ header' = HeaderAdd(header, S_Signature, last.res.value)
  /\ last' = [op |-> "AddSignature"]
  /\ UNCHANGED <<input, ncalls>>
  /\ UNCHANGED bvars

\* the caller writes the exchange file
CallWriteExchangeFile ==
  \E order \in IterOrders(header) :
    /\ ncalls > 0
    /\ last' = [op |-> "WriteExchangeFile", out |-> WriteExchangeFile(input, header, order)]
    /\ UNCHANGED sxvars
    /\ UNCHANGED bvars

\* a caller asks for the signing algorithm of a key (the functions read no
\* state: the model calls them before the first NewInput only)
CallSigningAlgorithmForPrivateKey ==
  \E pk \in Keys :
    /\ ncalls = 0
    /\ last' = [op |-> "SigningAlgorithmForPrivateKey", pk |-> pk,
                signer |-> signerForPrivateKey(pk),
                plain |-> SigningAlgorithmForPrivateKey(pk),
                rand |-> SigningAlgorithmForPrivateKeyRand(pk)]
    /\ UNCHANGED sxvars
    /\ UNCHANGED bvars

Next ==
  \/ CallNewInput
  \/ CallAddSignedHeadersHeader
  \/ CallSignatureHeaderValue
  \/ CallSignFailing
  \/ CallAddSignature
  \/ CallWriteExchangeFile
  \/ CallSigningAlgorithmForPrivateKey

Spec == Init /\ [][Next]_vars

(***************************************************************************)
(* The bundle writer and the metadata reader.  The Bundle and the section  *)
(* list are built independently of each other; the model builds one of     *)
(* them in a run.                                                          *)
(***************************************************************************)
InitBundle ==
  /\ header = EmptyHeader
  /\ input = NoInput
  /\ ncalls = 0
  /\ exchanges = <<>>
  /\ so = <<>>
  /\ last = [op |-> "none"]

\* the caller appends an Exchange to Bundle.Exchanges
AppendExchange ==
  \E e \in Exchanges :
    /\ Len(exchanges) < MaxExchanges
    /\ so = <<>>
    /\ exchanges' = Append(exchanges, e)
    /\ last' = [op |-> "AppendExchange"]
    /\ UNCHANGED <<so>>
    /\ UNCHANGED sxvars

\* the caller writes the Bundle
CallWriteTo ==
  /\ so = <<>>
  /\ last' = [op |-> "WriteTo", b |-> exchanges, res |-> WriteTo(exchanges)]
  /\ UNCHANGED bvars
  /\ UNCHANGED sxvars

\* a caller appends a section to the section list
CallAddSectionOrdered ==
  \E name \in SectionNames, length \in SectionLengths :
    /\ Len(so) < MaxSections
    /\ exchanges = <<>>
    /\ so' = AddSectionOrdered(so, name, length)
    /\ last' = [op |-> "AddSectionOrdered", name |-> name, length |-> length]
    /\ UNCHANGED <<exchanges>>
    /\ UNCHANGED sxvars

\* a section-offsets byte string whose map holds the entries in the order of
\* the list (a map another writer made: the reader asks for no order)
SectionOffsetsInOrder(so0) ==
  EncodeByteString(
    CborHeader(5, Len(so0)) \o
    ConcatEntries([k \in 1..Len(so0) |->
                     GenerateMapEntry(EncodeTextString(so0[k].Name),
                                      EncodeArrayHeader(2) \o EncodeUInt64(so0[k].Offset)
                                                           \o EncodeUInt64(so0[k].Length))]))

\* a buffer cut short of the magic, and with a byte of the magic changed
BadMagicInputs(bs) ==
  { SubSeq(bs, 1, 0), SubSeq(bs, 1, Len(HeaderMagicBytes) - 1),
    [bs EXCEPT ![1] = 0], [bs EXCEPT ![Len(HeaderMagicBytes)] = 167] }

\* section lists of another writer whose offsets and lengths are near 2^64:
\* an index section whose offset + length wraps around, one whose
\* sectionsStart + offset does, and one that ends at 2^64 - 1
WrapSectionLists ==
  { <<[Name |-> S_index, Offset |-> U64(1),
       Length |-> <<255, 255, 255, 255, 255, 255, 255, 255>>]>>,
    <<[Name |-> S_index, Offset |-> <<255, 255, 255, 255, 255, 255, 255, 240>>,
       Length |-> U64(5)]>>,
    <<[Name |-> S_index, Offset |-> U64(0),
       Length |-> <<255, 255, 255, 255, 255, 255, 255, 200>>]>> }

\* the buffers a caller hands to loadMetadata: the written Bundle (the empty
\* one too); the magic, the section-offsets byte string of the section list
\* (as writeSectionOffsets writes it, or with the entries in list order) and
\* some more bytes; such buffers with the magic damaged; and buffers whose
\* section list has offsets and lengths near 2^64
LoadInputs ==
  IF exchanges # <<>>
    THEN {WriteTo(exchanges).out} \cup BadMagicInputs(WriteTo(exchanges).out)
  ELSE {HeaderMagicBytes \o writeSectionOffsets(so) \o Repeat(0, f) : f \in Fills}
         \cup {HeaderMagicBytes \o SectionOffsetsInOrder(so) \o Repeat(0, f) : f \in Fills}
         \cup BadMagicInputs(HeaderMagicBytes \o writeSectionOffsets(so))
         \cup (IF so = <<>> THEN {WriteTo(exchanges).out} ELSE {})
         \cup (IF so = <<>>
                THEN {HeaderMagicBytes \o SectionOffsetsInOrder(w) \o Repeat(0, 300) :
                        w \in WrapSectionLists}
                ELSE {})

\* a caller reads the metadata of a buffer
CallLoadMetadata ==
  \E bs \in LoadInputs :
    /\ last' = [op |-> "loadMetadata", bs |-> bs, res |-> loadMetadata(bs)]
    /\ UNCHANGED bvars
    /\ UNCHANGED sxvars

NextBundle ==
  \/ AppendExchange
  \/ CallWriteTo
  \/ CallAddSectionOrdered
  \/ CallLoadMetadata

SpecBundle == InitBundle /\ [][NextBundle]_vars

(***************************************************************************)
(* Bundle.WriteTo statement by statement, on a sink that may fail, and the *)
(* index-section builder called in any order.  The run of WriteTo is kept  *)
(* in `last`: the statement it is at (pc), the loop index k, the staging   *)
(* areas is and rs, the section list so, the counting writer cw (its buf   *)
(* is what reached the sink), the builder methods called so far (calls),   *)
(* and what WriteTo returned.                                              *)
(***************************************************************************)
\* the sinks of the model: one that takes every byte (-1), and ones that
\* fail once they hold that many bytes
SinkCaps == {0 - 1, 0, 4, 20, 35, 36, 40, 70}

\* a Write of p on the counting writer over a sink that fails once it holds
\* cap bytes; what the sink took is counted: [cw, err]
SinkWrite(cw, p, cap) ==
  [cw |-> CountingWrite(cw, SubSeq(p, 1,
             IF cap < 0 \/ cw.Written + Len(p) <= cap THEN Len(p) ELSE cap - cw.Written)),
   err |-> ~(cap < 0 \/ cw.Written + Len(p) <= cap)]


\* indexSection.Len with the check of bytes left out
indexSectionLenPanics_Never(is) == FALSE

\* indexSection.Len panics while bytes is nil
indexSectionLenPanics(is) == is.bytes = <<>>

\* indexSection.Bytes panics while bytes is nil
indexSectionBytesPanics(is) == is.bytes = <<>>

\* indexSection.Finalize panics once bytes is set
indexSectionFinalizePanics(is) == is.bytes # <<>>

NoReturn == [returned |-> FALSE, n |-> 0, err |-> FALSE]

\* return n, err
Return(n, err) == [returned |-> TRUE, n |-> n, err |-> err]

\* a write of WriteTo: `if err := <write p>; err != nil { return cw.Written, err }`
WriteStep(st, p, next) ==
  IF SinkWrite(st.cw, p, st.cap).err
    THEN [st EXCEPT !.cw = SinkWrite(st.cw, p, st.cap).cw, !.pc = "done",
                    !.ret = Return(SinkWrite(st.cw, p, st.cap).cw.Written, TRUE)]
  ELSE [st EXCEPT !.cw = SinkWrite(st.cw, p, st.cap).cw, !.pc = next]

\* a panic ends the run
Panicked(st) == [st EXCEPT !.panic = TRUE, !.pc = "done"]

\* WriteTo is called: cw, is and rs are made.  failAt is the exchange whose
\* staging fails (0: none does)
BeginWriteTo ==
  \E cap \in SinkCaps, failAt \in 0..Len(exchanges) :
    /\ last.op \in {"none", "AppendExchange"}
    /\ last' = [op |-> "WriteToRun", pc |-> "loop", k |-> 1,
                is |-> NewIndexSection, rs |-> newResponsesSection(Len(exchanges)),
                so |-> <<>>, cw |-> NewCountingWriter, cap |-> cap, failAt |-> failAt,
                calls |-> <<>>, panic |-> FALSE, ret |-> NoReturn]
    /\ UNCHANGED bvars
    /\ UNCHANGED sxvars

\* one turn of the loop over b.Exchanges
StepAddExchange ==
  /\ last.op = "WriteToRun" /\ last.pc = "loop" /\ last.k <= Len(exchanges)
  /\ last' = IF last.failAt = last.k
               THEN [last EXCEPT !.pc = "done", !.ret = Return(last.cw.Written, TRUE)]
             ELSE [last EXCEPT
                     !.is = addExchange(last.is, last.rs, exchanges[last.k]).is,
                     !.rs = addExchange(last.is, last.rs, exchanges[last.k]).rs,
                     !.k = @ + 1,
                     !.calls = Append(@, "addExchange")]
  /\ UNCHANGED bvars
  /\ UNCHANGED sxvars

\* is.Finalize() after the loop
StepFinalize ==
  /\ last.op = "WriteToRun" /\ last.pc = "loop" /\ last.k > Len(exchanges)
  /\ last' = IF indexSectionFinalizePanics(last.is)
               THEN Panicked([last EXCEPT !.calls = Append(@, "Finalize")])
             ELSE [last EXCEPT !.is = Finalize(last.is), !.pc = "offsets",
                               !.calls = Append(@, "Finalize")]
  /\ UNCHANGED bvars
  /\ UNCHANGED sxvars

\* the two so.AddSectionOrdered calls, with is.Len() and rs.Len()
StepSectionOffsets ==
  /\ last.op = "WriteToRun" /\ last.pc = "offsets"
  /\ last' = IF indexSectionLenPanics(last.is)
               THEN Panicked([last EXCEPT !.calls = Append(@, "Len")])
             ELSE [last EXCEPT
                     !.so = AddSectionOrdered(
                              AddSectionOrdered(<<>>, S_index, U64(Len(last.is.bytes))),
                              S_responses, U64(Len(last.rs.buf))),
                     !.pc = "magic",
                     !.calls = Append(@, "Len")]
  /\ UNCHANGED bvars
  /\ UNCHANGED sxvars

\* cw.Write(HeaderMagicBytes)
StepWriteMagic ==
  /\ last.op = "WriteToRun" /\ last.pc = "magic"
  /\ last' = WriteStep(last, HeaderMagicBytes, "sectionOffsets")
  /\ UNCHANGED bvars
  /\ UNCHANGED sxvars

\* writeSectionOffsets(cw, so)
StepWriteSectionOffsets ==
  /\ last.op = "WriteToRun" /\ last.pc = "sectionOffsets"
  /\ last' = WriteStep(last, writeSectionOffsets(last.so), "sectionHeader")
  /\ UNCHANGED bvars
  /\ UNCHANGED sxvars

\* writeSectionHeader(cw, len(so))
StepWriteSectionHeader ==
  /\ last.op = "WriteToRun" /\ last.pc = "sectionHeader"
  /\ last' = WriteStep(last, writeSectionHeader(Len(last.so)), "index")
  /\ UNCHANGED bvars
  /\ UNCHANGED sxvars


\* the write of the index with the responses written in its place
StepWriteIndex_Responses ==
  /\ last.op = "WriteToRun" /\ last.pc = "index"
  /\ last' = WriteStep([last EXCEPT !.calls = Append(@, "Bytes")], last.rs.buf, "responses")
  /\ UNCHANGED bvars
  /\ UNCHANGED sxvars

\* cw.Write(is.Bytes())
StepWriteIndex ==
  /\ last.op = "WriteToRun" /\ last.pc = "index"
  /\ last' = IF indexSectionBytesPanics(last.is)
               THEN Panicked([last EXCEPT !.calls = Append(@, "Bytes")])
             ELSE WriteStep([last EXCEPT !.calls = Append(@, "Bytes")],
                            last.is.bytes, "responses")
  /\ UNCHANGED bvars
  /\ UNCHANGED sxvars

\* cw.Write(rs.Bytes())
StepWriteResponses ==
  /\ last.op = "WriteToRun" /\ last.pc = "responses"
  /\ last' = WriteStep(last, last.rs.buf, "footer")
  /\ UNCHANGED bvars
  /\ UNCHANGED sxvars

\* writeFooter(cw, int(cw.Written)) and the final return
StepWriteFooter ==
  /\ last.op = "WriteToRun" /\ last.pc = "footer"
  /\ last' = IF WriteStep(last, writeFooter(last.cw.Written), "done").ret.returned
               THEN WriteStep(last, writeFooter(last.cw.Written), "done")
             ELSE [WriteStep(last, writeFooter(last.cw.Written), "done") EXCEPT
                     !.ret = Return(WriteStep(last, writeFooter(last.cw.Written),
                                              "done").cw.Written, FALSE)]
  /\ UNCHANGED bvars
  /\ UNCHANGED sxvars

\* a caller makes an index-section builder: &indexSection{}.  nfinal counts
\* the Finalize calls that returned, before those that had when the last
\* call was made
CallNewIndexSection ==
  /\ last.op \in {"none", "AppendExchange", "indexSection"}
  /\ last' = [op |-> "indexSection", call |-> "new", is |-> NewIndexSection,
              panic |-> FALSE, before |-> 0, nfinal |-> 0]
  /\ UNCHANGED bvars
  /\ UNCHANGED sxvars

\* a caller calls is.addExchange
CallIndexSectionAddExchange ==
  \E e \in Exchanges, offset \in {1}, length \in {5, 300} :
    /\ last.op = "indexSection" /\ ~last.panic
    /\ Len(last.is.mes) < MaxExchanges
    /\ last' = [last EXCEPT !.call = "addExchange", !.before = last.nfinal,
                            !.is = indexSectionAddExchange(last.is, e, offset, length)]
    /\ UNCHANGED bvars
    /\ UNCHANGED sxvars

\* a caller calls is.Finalize
CallIndexSectionFinalize ==
  /\ last.op = "indexSection" /\ ~last.panic
  /\ last' = IF indexSectionFinalizePanics(last.is)
               THEN [last EXCEPT !.call = "Finalize", !.before = last.nfinal, !.panic = TRUE]
             ELSE [last EXCEPT !.call = "Finalize", !.before = last.nfinal,
                               !.is = Finalize(last.is), !.nfinal = @ + 1]
  /\ UNCHANGED bvars
  /\ UNCHANGED sxvars

\* a caller calls is.Len
CallIndexSectionLen ==
  /\ last.op = "indexSection" /\ ~last.panic
  /\ last' = [last EXCEPT !.call = "Len", !.before = last.nfinal,
                          !.panic = indexSectionLenPanics(last.is)]
  /\ UNCHANGED bvars
  /\ UNCHANGED sxvars

\* a caller calls is.Bytes
CallIndexSectionBytes ==
  /\ last.op = "indexSection" /\ ~last.panic
  /\ last' = [last EXCEPT !.call = "Bytes", !.before = last.nfinal,
                          !.panic = indexSectionBytesPanics(last.is)]
  /\ UNCHANGED bvars
  /\ UNCHANGED sxvars

NextWrite ==
  \/ AppendExchange
  \/ BeginWriteTo
  \/ StepAddExchange
  \/ StepFinalize
  \/ StepSectionOffsets
  \/ StepWriteMagic
  \/ StepWriteSectionOffsets
  \/ StepWriteSectionHeader
  \/ StepWriteIndex
  \/ StepWriteResponses
  \/ StepWriteFooter
  \/ CallNewIndexSection
  \/ CallIndexSectionAddExchange
  \/ CallIndexSectionFinalize
  \/ CallIndexSectionLen
  \/ CallIndexSectionBytes

SpecWrite == InitBundle /\ [][NextWrite]_vars

(***************************************************************************)
(* The codec and the encoders, called on the inputs above.  They read no   *)
(* state, so a second call is like a first: the model makes one call and   *)
(* leaves its arguments and its result in last.                            *)
(***************************************************************************)
InitCodec ==
  /\ header = EmptyHeader
  /\ input = NoInput
  /\ ncalls = 0
  /\ exchanges = <<>>
  /\ so = <<>>
  /\ last = [op |-> "none"]

\* a caller encodes a map of pre-encoded entries
CallEncodeMap ==
  \E mes \in MapInputs :
    /\ last.op = "none"
    /\ last' = [op |-> "EncodeMap", mes |-> mes, out |-> EncodeMap(mes)]
    /\ UNCHANGED sxvars
    /\ UNCHANGED bvars

\* a caller encodes the response header of an Input NewInput made
CallEncodeResponseHeader ==
  \E a \in InputArgs, h \in CallerHeaders, filter \in Filters :
    \E order \in IterOrders(NewInput(a.uri, a.status, h, a.payload, a.rs).header) :
      /\ last.op = "none"
    /\ last' = [op |-> "encodeResponseHeader",
                  i |-> NewInput(a.uri, a.status, h, a.payload, a.rs).input,
                  h |-> NewInput(a.uri, a.status, h, a.payload, a.rs).header,
                  filter |-> filter,
                  out |-> encodeResponseHeader(
                            NewInput(a.uri, a.status, h, a.payload, a.rs).input,
                            NewInput(a.uri, a.status, h, a.payload, a.rs).header,
                            order, filter)]
      /\ UNCHANGED sxvars
      /\ UNCHANGED bvars

\* a caller encodes one item
CallEncode ==
  \E item \in Items :
    /\ last.op = "none"
    /\ last' = [op |-> "Encode", kind |-> item.kind, val |-> item.val,
                out |-> Encode(item.kind, item.val)]
    /\ UNCHANGED sxvars
    /\ UNCHANGED bvars

\* a caller decodes an item the encoder wrote, followed by other bytes
CallDecode ==
  \E item \in Items, tail \in {<<>>, <<0, 1>>} :
    /\ last.op = "none"
    /\ last' = [op |-> "Decode", kind |-> item.kind, val |-> item.val, tail |-> tail,
                out |-> Encode(item.kind, item.val),
                res |-> Decode(item.kind, Encode(item.kind, item.val) \o tail)]
    /\ UNCHANGED sxvars
    /\ UNCHANGED bvars

\* a caller decodes bytes another encoder wrote
CallDecodeBytes ==
  \E in \in NonMinimalInputs :
    /\ last.op = "none"
    /\ last' = [op |-> "DecodeBytes", kind |-> in.kind, bs |-> in.bs,
                res |-> Decode(in.kind, in.bs)]
    /\ UNCHANGED sxvars
    /\ UNCHANGED bvars

\* a caller makes an Input of a payload: the MICE encoding it is left with
CallMiEncode ==
  \E payload \in Payloads, recordSize \in 1..MaxRecordSize :
    /\ last.op = "none"
    /\ last' = [op |-> "miEncode", payload |-> payload, recordSize |-> recordSize,
                out |-> NewInput(U1, 200, EmptyHeader, payload, recordSize).input.Payload,
                mi |-> HeaderGet(NewInput(U1, 200, EmptyHeader, payload, recordSize).header,
                                 S_MI)]
    /\ UNCHANGED sxvars
    /\ UNCHANGED bvars

(***************************************************************************)
(* The status of a response: the text-manifest parser reads it from a line *)
(* of text, the encoders take it from the Input.                           *)
(***************************************************************************)
\* the value of a string of decimal digits
RECURSIVE DigitsValue(_)
DigitsValue(ds) ==
  IF ds = <<>> THEN 0 ELSE DigitsValue(SubSeq(ds, 1, Len(ds) - 1)) * 10 + (ds[Len(ds)] - 48)

\* a string without its leading "0"s
RECURSIVE StripLeadingZeros(_)
StripLeadingZeros(ds) ==
  IF ds # <<>> /\ Head(ds) = 48 THEN StripLeadingZeros(Tail(ds)) ELSE ds

\* strconv.Atoi: an optional sign, then one or more decimal digits; a value
\* that does not fit an int is an error too (the model takes a number of more
\* than 9 digits for one: such a number is above 999 anyway).  [ok, n]
Atoi(t) ==
  LET ds == IF t # <<>> /\ Head(t) \in {43, 45} THEN Tail(t) ELSE t
  IN IF ds = <<>> \/ \E k \in 1..Len(ds) : ds[k] \notin 48..57
       THEN [ok |-> FALSE, n |-> 0]
     ELSE IF Len(StripLeadingZeros(ds)) > 9 THEN [ok |-> FALSE, n |-> 0]
     ELSE [ok |-> TRUE,
           n |-> IF Head(t) = 45 THEN 0 - DigitsValue(ds) ELSE DigitsValue(ds)]


\* the status check of parseTextParts with the upper limit left out
parseTextPartsStatus_NoUpperLimit(line) ==
  IF ~Atoi(line).ok THEN [ok |-> FALSE, status |-> <<>>]
  ELSE IF Atoi(line).n < 100 THEN [ok |-> FALSE, status |-> <<>>]
  ELSE [ok |-> TRUE, status |-> Itoa(Atoi(line).n)]

\* parseTextParts, the status line of a part: [ok, status], status the value
\* of the :status response header it makes
parseTextPartsStatus(line) ==
  IF ~Atoi(line).ok THEN [ok |-> FALSE, status |-> <<>>]
  ELSE IF Atoi(line).n < 100 \/ Atoi(line).n > 999 THEN [ok |-> FALSE, status |-> <<>>]
  ELSE [ok |-> TRUE, status |-> Itoa(Atoi(line).n)]

\* the status lines of the model
StatusLines ==
  { <<50, 48, 48>>,                                               \* "200"
    <<49, 48, 48>>,                                               \* "100"
    <<57, 57, 57>>,                                               \* "999"
    <<53, 57, 57>>,                                               \* "599"
    <<57, 57>>,                                                   \* "99"
    <<48, 57, 57>>,                                               \* "099"
    <<49, 48, 48, 48>>,                                           \* "1000"
    <<48, 49, 48, 48>>,                                           \* "0100"
    <<43, 50, 48, 48>>,                                           \* "+200"
    <<45, 50, 48, 48>>,                                           \* "-200"
    <<97, 98, 99>>,                                               \* "abc"
    <<>>,                                                         \* ""
    <<50, 120, 48>>,                                              \* "2x0"
    <<32, 50, 48, 48>>,                                           \* " 200"
    <<50, 48, 48, 32>>,                                           \* "200 "
    <<49, 50, 51, 52, 53, 54, 55, 56, 57, 48, 49, 50, 51, 52, 53, 54, 55, 56, 57, 48>>, \* "12345678901234567890"
    <<48, 48, 48, 48, 48, 48, 48, 48, 48, 48, 48, 48, 48, 48, 48, 48, 48, 48, 50, 48, 48>>, \* "000000000000000000200"
    <<43>>,                                                       \* "+"
    <<49, 101, 50>>  \* "1e2"
  }

\* the statuses of the Inputs the encoders are called on
Statuses == (100..599) \cup {0 - 200, 0 - 1, 0, 7, 99, 600, 999, 1000, 65536}

\* a caller parses the status line of a part of a text manifest
CallParseTextPartsStatus ==
  \E line \in StatusLines :
    /\ last.op = "none"
    /\ last' = [op |-> "parseTextParts", line |-> line, res |-> parseTextPartsStatus(line)]
    /\ UNCHANGED sxvars
    /\ UNCHANGED bvars

\* a caller makes an Input of a status and encodes its response header and
\* its exchange file
CallEncodeStatus ==
  \E status \in Statuses, h \in {HeaderAdd(EmptyHeader, S_ContentType, S_texthtml)} :
    \E order \in IterOrders(NewInput(U1, status, h, P_ABC, 16).header) :
      /\ last.op = "none"
      /\ last' = [op |-> "encodeStatus", status |-> status,
                  out |-> encodeResponseHeader(NewInput(U1, status, h, P_ABC, 16).input,
                                               NewInput(U1, status, h, P_ABC, 16).header,
                                               order, allKeys),
                  file |-> WriteExchangeFile(NewInput(U1, status, h, P_ABC, 16).input,
                                             NewInput(U1, status, h, P_ABC, 16).header,
                                             order)]
      /\ UNCHANGED sxvars
      /\ UNCHANGED bvars


\* header collections whose names meet in the emitted map: two keys that
\* differ in letter case only, a header named ":status", and one with neither
NameHeaders ==
  { (S_ContentType :> <<S_texthtml>>) @@ (S_contenttype :> <<S_gzip>>),
    HeaderAdd(HeaderAdd(EmptyHeader, S_ContentType, S_texthtml), S_status, S_gzip),
    HeaderAdd(EmptyHeader, S_ContentType, S_texthtml) }

\* a caller makes an Input of such a collection and encodes its response
\* header
CallEncodeHeaderNames ==
  \E h \in NameHeaders, filter \in Filters :
    \E order \in IterOrders(NewInput(U1, 200, h, P_ABC, 16).header) :
      /\ last.op = "none"
      /\ last' = [op |-> "encodeHeaderNames",
                  h |-> NewInput(U1, 200, h, P_ABC, 16).header,
                  filter |-> filter,
                  out |-> encodeResponseHeader(NewInput(U1, 200, h, P_ABC, 16).input,
                                               NewInput(U1, 200, h, P_ABC, 16).header,
                                               order, filter)]
      /\ UNCHANGED sxvars
      /\ UNCHANGED bvars

NextCodec ==
  \/ CallEncodeMap
  \/ CallEncodeResponseHeader
  \/ CallEncode
  \/ CallDecode
  \/ CallDecodeBytes
  \/ CallMiEncode
  \/ CallParseTextPartsStatus
  \/ CallEncodeStatus
  \/ CallEncodeHeaderNames

SpecCodec == InitCodec /\ [][NextCodec]_vars

(***************************************************************************)
(* Reading back what the operations wrote.                                 *)
(***************************************************************************)

\* the (key, position) pairs of the values a header collection holds under
\* the keys whose lower-case form is lname
HeaderEntries(h, lname) ==
  {kj \in UNION {{<<k, j>> : j \in 1..Len(h[k])} : k \in DOMAIN h} : ToLower(kj[1]) = lname}

\* n entries of a map whose keys and values are byte strings: [ok, entries, rest]
RECURSIVE DecodeBstrEntries(_, _, _)
DecodeBstrEntries(bs, n, acc) ==
  IF n = 0 THEN [ok |-> TRUE, entries |-> acc, rest |-> bs]
  ELSE IF ~DecodeByteString(bs).ok \/ ~DecodeByteString(DecodeByteString(bs).rest).ok
    THEN [ok |-> FALSE, entries |-> <<>>, rest |-> <<>>]
  ELSE DecodeBstrEntries(
         DecodeByteString(DecodeByteString(bs).rest).rest, n - 1,
         Append(acc, [key |-> DecodeByteString(bs).val,
                      value |-> DecodeByteString(DecodeByteString(bs).rest).val]))

\* a map whose keys and values are byte strings: [ok, entries, rest]
DecodeBstrMap(bs) ==
  IF ~DecodeMapHeader(bs).ok THEN [ok |-> FALSE, entries |-> <<>>, rest |-> <<>>]
  ELSE DecodeBstrEntries(DecodeMapHeader(bs).rest, DecodeMapHeader(bs).n, <<>>)

\* the keys of decoded entries, in the order they were emitted
EntryKeys(entries) == [k \in 1..Len(entries) |-> entries[k].key]

\* the names a signed-headers value lists: comma-separated, each in quotes,
\* blanks after a comma ignored
RECURSIVE TrimBlanks(_)
TrimBlanks(t) == IF t # <<>> /\ Head(t) = 32 THEN TrimBlanks(Tail(t)) ELSE t

SignedHeaderNames(h) ==
  LET toks == Split(HeaderGet(h, S_signedheaders), 44)
      names == [k \in 1..Len(toks) |->
                  TrimSuffix(TrimPrefix(TrimBlanks(toks[k]), <<34>>), <<34>>)]
  IN Range(names) \ {<<>>}

\* the parameters of a header value: split at ';', blanks trimmed, each cut
\* at its first '=' into [name, value]
ParamOf(t) ==
  LET eqs == {k \in 1..Len(t) : t[k] = 61}
      e == CHOOSE k \in eqs : \A j \in eqs : k <= j
  IN IF eqs = {} THEN [name |-> t, value |-> <<>>]
     ELSE [name |-> SubSeq(t, 1, e - 1), value |-> DropTo(t, e + 1)]

Params(v) ==
  LET toks == Split(v, 59)
  IN [k \in 1..Len(toks) |-> ParamOf(TrimBlanks(toks[k]))]

ParamNames(v) == [k \in 1..Len(Params(v)) |-> Params(v)[k].name]

S_validityUrl == <<118, 97, 108, 105, 100, 105, 116, 121, 85, 114, 108>> \* "validityUrl"
S_sig == <<115, 105, 103>>                                          \* "sig"
S_integrity == <<105, 110, 116, 101, 103, 114, 105, 116, 121>>      \* "integrity"
S_certUrl == <<99, 101, 114, 116, 85, 114, 108>>                    \* "certUrl"
S_contentencoding ==
  <<99, 111, 110, 116, 101, 110, 116, 45, 101, 110, 99, 111, 100, 105, 110, 103>> \* "content-encoding"

(***************************************************************************)
(* The signed-exchange pipeline: properties.                               *)
(***************************************************************************)
\* C1: when NewInput has returned, the header collection holds exactly one
\* Content-Encoding entry, with value mi-sha256, and exactly one MI entry,
\* the digest of the raw payload, and Payload is the MICE encoding of the raw
\* payload -- whatever the collection held before the call.
C1_NewInputOneEntryEach ==
  last.op = "NewInput" =>
    /\ Cardinality(HeaderEntries(header, S_contentencoding)) = 1
    /\ \A kj \in HeaderEntries(header, S_contentencoding) :
         header[kj[1]][kj[2]] = S_misha256
    /\ Cardinality(HeaderEntries(header, ToLower(S_MI))) = 1
    /\ \A kj \in HeaderEntries(header, ToLower(S_MI)) :
         header[kj[1]][kj[2]] = MiceEncode(last.args.payload, last.args.rs).mi
    /\ input.Payload = MiceEncode(last.args.payload, last.args.rs).buf

\* the response map of the canonical exchange headers the last
\* SignatureHeaderValue call signed
C2_ResponseMap ==
  DecodeBstrMap(DecodeBstrMap(DecodeArrayHeader(last.exch).rest).rest)

\* C2: the response map of encodeCanonicalExchangeHeaders holds :status and
\* exactly one entry for each response header whose lower-case name is listed
\* in signed-headers, and nothing else.
C2_ResponseMapIsSignedHeaders ==
  last.op = "SignatureHeaderValue" =>
    /\ C2_ResponseMap.ok
    /\ C2_ResponseMap.rest = <<>>
    /\ Range(EntryKeys(C2_ResponseMap.entries))
         = {S_status} \cup {ToLower(k) : k \in {k \in DOMAIN header :
                                                  ToLower(k) \in SignedHeaderNames(header)}}
    /\ Len(C2_ResponseMap.entries)
         = 1 + Cardinality({k \in DOMAIN header : ToLower(k) \in SignedHeaderNames(header)})

\* C3: when signing succeeds, the parameters of the Signature header value
\* are sig, validityUrl, integrity, certUrl, certSha256, date, expires in that
\* order, validityUrl being there whenever the caller supplied a validity
\* URL; integrity is "mi", sig and certSha256 are '*' and unpadded base64.
C3_SignatureParams ==
  (last.op = "SignatureHeaderValue" /\ ~last.res.err) =>
    /\ ParamNames(last.res.value)
         = <<S_sig>>
           \o (IF last.validityUrl # <<>> THEN <<S_validityUrl>> ELSE <<>>)
           \o <<S_integrity, S_certUrl, S_certSha256, S_date, S_expires>>
    /\ \A k \in 1..Len(Params(last.res.value)) :
         LET q == Params(last.res.value)[k]
         IN /\ q.name = S_sig => q.value = <<42>> \o RawStdEncoding(last.outcome.sig)
            /\ q.name = S_integrity => q.value = <<34>> \o S_mi \o <<34>>
            /\ q.name = S_validityUrl => q.value = <<34>> \o last.validityUrl \o <<34>>
            /\ q.name = S_certSha256 =>
                 q.value = <<42>> \o RawStdEncoding(IF last.signer.Certs = <<>> THEN <<>>
                                                    ELSE Sha256(last.signer.Certs[1]))

\* the bytes a signed message must consist of for a Signer and the canonical
\* exchange headers: the prefix, then the map in canonical key order
C4_Expected(sg, exch) ==
  [k \in 1..64 |-> 32]
  \o <<72, 84, 84, 80, 32, 69, 120, 99, 104, 97, 110, 103, 101>>
  \o <<0>>
  \o <<160 + (IF sg.Certs = <<>> THEN 3 ELSE 4)>>
  \o <<100, 100, 97, 116, 101>> \o EncodeInt(sg.Date)
  \o <<103, 101, 120, 112, 105, 114, 101, 115>> \o EncodeInt(sg.Expires)
  \o <<103, 104, 101, 97, 100, 101, 114, 115>> \o exch
  \o (IF sg.Certs = <<>> THEN <<>>
      ELSE <<106, 99, 101, 114, 116, 83, 104, 97, 50, 53, 54>>
           \o <<88, 32>> \o Sha256(sg.Certs[1]))

\* C4: the signed message is 64 bytes 0x20, "HTTP Exchange", one 0 byte (the
\* CBOR part starts at offset 78), then one map with the entries date,
\* expires, headers in that order, followed by certSha256 if and only if the
\* Signer has a certificate.
C4_SignedMessageLayout ==
  (last.op = "SignatureHeaderValue" /\ last.res.msg # <<>>) =>
    /\ last.res.msg = C4_Expected(last.signer, last.exch)
    /\ last.res.msg[78] = 0
    /\ last.res.msg[79] \div 32 = 5

\* C4 happens: a message was built for a Signer with certificates
C4_Witness ==
  /\ last.op = "SignatureHeaderValue"
  /\ last.res.msg # <<>>
  /\ last.signer.Certs # <<>>
  /\ last.signer.Date > 0

\* what the claim expects of a dispatch result r for key pk; s256 tells
\* whether a secp256k1 key is to yield an algorithm
C5_Dispatch(pk, r, s256) ==
  /\ (r.alg = NoAlg) # (r.err = NoErr)
  /\ IF pk.type = "rsa" /\ pk.bits = 2048
       THEN r.alg = [kind |-> "rsaPSS", hash |-> "SHA256"]
     ELSE IF pk.type = "rsa"
       THEN r.err = "unsupported RSA key size"
     ELSE IF pk.type = "ecdsa" /\ pk.curve = "P-256"
       THEN r.alg = [kind |-> "ecdsa", hash |-> "SHA256"]
     ELSE IF pk.type = "ecdsa" /\ pk.curve = "P-384"
       THEN r.alg = [kind |-> "ecdsa", hash |-> "SHA384"]
     ELSE IF s256 /\ pk.type = "ecdsa" /\ pk.curve = "secp256k1"
       THEN r.alg = [kind |-> "ecdsaS256", hash |-> "SHA256"]
     ELSE r.alg = NoAlg /\ r.err # NoErr

C6_Item1 == DecodeTextString(DecodeArrayHeader(last.out).rest)
C6_Item2 == DecodeTextString(C6_Item1.rest)
C6_Item3 == DecodeBstrMap(C6_Item2.rest)
C6_Item4 == DecodeTextString(C6_Item3.rest)
C6_Item5 == DecodeBstrMap(C6_Item4.rest)
C6_Item6 == DecodeTextString(C6_Item5.rest)
C6_Item7 == DecodeByteString(C6_Item6.rest)

\* C6: the exchange file is an array of 7 items: "htxg", "request", the
\* request map, "response", the response-header map of every header of the
\* Input (Signature and signed-headers too) and :status, "payload", and the
\* byte string of the Input's (MICE-encoded) payload.
C6_ExchangeFileLayout ==
  last.op = "WriteExchangeFile" =>
    /\ DecodeArrayHeader(last.out).ok /\ DecodeArrayHeader(last.out).n = 7
    /\ C6_Item1.ok /\ C6_Item1.val = <<104, 116, 120, 103>>
    /\ C6_Item2.ok /\ C6_Item2.val = <<114, 101, 113, 117, 101, 115, 116>>
    /\ C6_Item3.ok
    /\ Range(C6_Item3.entries) = {[key |-> S_method, value |-> S_GET],
                                  [key |-> S_url, value |-> input.RequestUri]}
    /\ Len(C6_Item3.entries) = 2
    /\ C6_Item4.ok /\ C6_Item4.val = <<114, 101, 115, 112, 111, 110, 115, 101>>
    /\ C6_Item5.ok
    /\ Range(EntryKeys(C6_Item5.entries)) = {S_status} \cup {ToLower(k) : k \in DOMAIN header}
    /\ Len(C6_Item5.entries) = 1 + Cardinality(DOMAIN header)
    /\ [key |-> S_status, value |-> Itoa(input.ResponseStatus)] \in Range(C6_Item5.entries)
    /\ C6_Item6.ok /\ C6_Item6.val = <<112, 97, 121, 108, 111, 97, 100>>
    /\ C6_Item7.ok /\ C6_Item7.val = input.Payload
    /\ C6_Item7.rest = <<>>
    /\ SubSeq(input.Payload, 1, 8) \in {BigEndian(a.rs, 8) : a \in InputArgs}

\* C6 happens: the file of an Input with Signature and signed-headers was written
C6_Witness ==
  /\ last.op = "WriteExchangeFile"
  /\ S_Signature \in DOMAIN header
  /\ CanonicalMIMEHeaderKey(S_signedheaders) \in DOMAIN header
  /\ Len(input.Payload) > 8

(***************************************************************************)
(* The bundle writer and the metadata reader: properties.                  *)
(***************************************************************************)
\* C7: the file WriteTo writes starts with the 10 magic bytes and ends with a
\* footer of 9 bytes, a byte string of 8 bytes whose big-endian value is the
\* length of the whole file, footer included; WriteTo returns that length.
C7_MagicAndFooter ==
  last.op = "WriteTo" =>
    /\ Len(last.res.out) >= 19
    /\ SubSeq(last.res.out, 1, 10) = <<132, 72, 240, 159, 140, 144, 240, 159, 147, 166>>
    /\ last.res.out[Len(last.res.out) - 8] = 72
    /\ FromBigEndian(DropTo(last.res.out, Len(last.res.out) - 7)) = Len(last.res.out)
    /\ last.res.n = Len(last.res.out)

\* C7 happens: a Bundle of two exchanges was written
C7_Witness ==
  /\ last.op = "WriteTo"
  /\ Len(last.b) = 2
  /\ last.b[1] # last.b[2]

\* C8: in a section list built by AddSectionOrdered the first offset is 0 and
\* every later offset is the offset before it plus the length before it; the
\* list WriteTo builds is index at 0 with the length of the index bytes, then
\* responses at that length with the length of the responses bytes.
C8_SectionsContiguous ==
  /\ \A k \in 1..Len(so) :
       IF k = 1 THEN ToNat(so[k].Offset) = 0
       ELSE ToNat(so[k].Offset) = ToNat(so[k - 1].Offset) + ToNat(so[k - 1].Length)
  /\ last.op = "WriteTo" =>
       /\ Len(last.res.so) = 2
       /\ last.res.so[1].Name = <<105, 110, 100, 101, 120>>
       /\ ToNat(last.res.so[1].Offset) = 0
       /\ ToNat(last.res.so[1].Length) = Len(last.res.is.bytes)
       /\ last.res.so[2].Name = <<114, 101, 115, 112, 111, 110, 115, 101, 115>>
       /\ ToNat(last.res.so[2].Offset) = Len(last.res.is.bytes)
       /\ ToNat(last.res.so[2].Length) = Len(last.res.rs.buf)

\* C8 happens: three sections were appended, the first two not empty
C8_Witness ==
  /\ Len(so) >= 3
  /\ ToNat(so[1].Length) > 0
  /\ ToNat(so[2].Length) > 0

\* the [offset, length] the index entry of exchange k records
C9_Range(k) ==
  [ok |-> /\ DecodeArrayHeader(last.res.is.mes[k].value).ok
          /\ DecodeArrayHeader(last.res.is.mes[k].value).n = 2
          /\ DecodeUInt(DecodeArrayHeader(last.res.is.mes[k].value).rest).ok
          /\ DecodeUInt(DecodeUInt(DecodeArrayHeader(last.res.is.mes[k].value).rest).rest).ok,
   offset |-> ToNat(DecodeUInt(DecodeArrayHeader(last.res.is.mes[k].value).rest).val),
   length |-> ToNat(DecodeUInt(DecodeUInt(
                      DecodeArrayHeader(last.res.is.mes[k].value).rest).rest).val)]

\* the array [response-header bytes, payload bytes] of an exchange
C9_ResponseOf(e) ==
  <<130>> \o EncodeByteString(WriteResponseHeaders(e)) \o EncodeByteString(e.Payload)

\* C9: in a written Bundle of N exchanges the index records one range per
\* exchange; the range of exchange k holds, in the responses section, exactly
\* the array [response-header bytes, payload bytes] of exchange k; the first
\* range starts after the section's array header, each range starts where
\* the one before ends, and the last ends where the section ends.
C9_IndexLocatesResponses ==
  last.op = "WriteTo" =>
    /\ Len(last.res.is.mes) = Len(last.b)
    /\ DecodeArrayHeader(last.res.rs.buf).ok
    /\ DecodeArrayHeader(last.res.rs.buf).n = Len(last.b)
    /\ \A k \in 1..Len(last.b) :
         /\ C9_Range(k).ok
         /\ last.res.is.mes[k].key = EncodeRequestWithHeaders(last.b[k])
         /\ C9_Range(k).offset + C9_Range(k).length <= Len(last.res.rs.buf)
         /\ SubSeq(last.res.rs.buf, C9_Range(k).offset + 1,
                   C9_Range(k).offset + C9_Range(k).length) = C9_ResponseOf(last.b[k])
         /\ C9_Range(k).offset
              = IF k = 1
                  THEN Len(last.res.rs.buf) - Len(DecodeArrayHeader(last.res.rs.buf).rest)
                  ELSE C9_Range(k - 1).offset + C9_Range(k - 1).length
         /\ k = Len(last.b) =>
              C9_Range(k).offset + C9_Range(k).length = Len(last.res.rs.buf)
    /\ Len(last.b) = 0 => DecodeArrayHeader(last.res.rs.buf).rest = <<>>

\* C9 happens: a Bundle of two exchanges, the first with the long payload
C9_Witness ==
  /\ last.op = "WriteTo"
  /\ Len(last.b) = 2
  /\ Len(last.b[1].Payload) >= 24

\* C10: when loadMetadata returns metadata, sectionsStart is the offset of
\* the first byte after the section-offsets byte string: 10 plus the encoded
\* length of that byte string, its CBOR header included.
C10_SectionsStart ==
  (last.op = "loadMetadata" /\ last.res.res = "ok") =>
    ToNat(last.res.meta.sectionsStart)
      = Len(last.bs) - Len(DecodeByteString(DropTo(last.bs, 11)).rest)
(***************************************************************************)
(* C11: for every Bundle WriteTo produced (the empty one and those of one  *)
(* or more exchanges), loadMetadata on the written bytes succeeds, and for *)
(* each section of the section offsets it read, the bytes of the file at   *)
(* [sectionsStart + offset, sectionsStart + offset + length) are that      *)
(* section's bytes as the writer staged them.                              *)
(***************************************************************************)
\* the bytes of bs the metadata m locates for the section e
C11_Located(bs, m, e) ==
  SubSeq(bs, ToNat(m.sectionsStart) + ToNat(e.Offset) + 1,
             ToNat(m.sectionsStart) + ToNat(e.Offset) + ToNat(e.Length))

\* the bytes the writer staged for the section named name
C11_Staged(w, name) == IF name = S_index THEN w.is.bytes ELSE w.rs.buf

C11_Agree(bs, r, w) ==
  /\ r.res = "ok"
  /\ Len(r.meta.sectionOffsets) = 2
  /\ \A k \in 1..Len(r.meta.sectionOffsets) :
        C11_Located(bs, r.meta, r.meta.sectionOffsets[k])
          = C11_Staged(w, r.meta.sectionOffsets[k].Name)

C11_WriterReaderAgree ==
  (last.op = "loadMetadata" /\ so = <<>> /\ last.bs = WriteTo(exchanges).out)
    => C11_Agree(last.bs, last.res, WriteTo(exchanges))

\* the empty Bundle read back: there the two sides agree
C11_EmptyBundleAgrees ==
  (last.op = "loadMetadata" /\ so = <<>> /\ exchanges = <<>>
     /\ last.bs = WriteTo(exchanges).out)
    => C11_Agree(last.bs, last.res, WriteTo(exchanges))

(***************************************************************************)
(* C12: loadMetadata returns an error and no metadata for every buffer     *)
(* whose first 10 bytes are not the magic, also for a buffer of fewer than *)
(* 10 bytes; the error is that of the magic step, so the section offsets   *)
(* are not decoded.                                                        *)
(***************************************************************************)
C12_BadMagicRejected ==
  (last.op = "loadMetadata" /\ ~HasPrefix(last.bs, HeaderMagicBytes))
    => /\ last.res.res = "error"
       /\ last.res.meta = NoMeta
       /\ last.res.err = IF Len(last.bs) < Len(HeaderMagicBytes)
                           THEN "EOF" ELSE "magic mismatch"

\* a buffer of a written Bundle with the last byte of the magic changed: but
\* for the magic, loadMetadata would have returned metadata
C12_Witness ==
  /\ last.op = "loadMetadata"
  /\ exchanges # <<>>
  /\ Len(last.bs) > Len(HeaderMagicBytes)
  /\ last.bs[1] = HeaderMagicBytes[1]
  /\ ~HasPrefix(last.bs, HeaderMagicBytes)
  /\ loadSectionOffsets(last.bs).res = "ok"
  /\ last.res.err = "magic mismatch"

(***************************************************************************)
(* C13: when the section-offsets map of a buffer names a section twice, at *)
(* any two positions, decodeSectionOffsetsCBOR fails with the duplicated-  *)
(* section error and loadMetadata returns that error and no metadata; when *)
(* the names are distinct (the values being arrays of two unsigned         *)
(* integers), it yields one (name, offset, length) triple per entry, in    *)
(* the order of the map.                                                   *)
(***************************************************************************)
\* the section-offsets byte string of a buffer that starts with the magic
C13_Sobytes(bs) == DecodeByteString(DropTo(bs, Len(HeaderMagicBytes) + 1))

\* the section list names a section twice
C13_NamedTwice(so0) ==
  \E i \in 1..Len(so0), j \in 1..Len(so0) : i < j /\ so0[i].Name = so0[j].Name

\* the buffer read was made of the section list so (in map order or list order)
C13_OfSectionList ==
  /\ last.op = "loadMetadata"
  /\ exchanges = <<>>
  /\ \/ HasPrefix(last.bs, HeaderMagicBytes \o writeSectionOffsets(so))
     \/ HasPrefix(last.bs, HeaderMagicBytes \o SectionOffsetsInOrder(so))

C13_Decoded(bs, dec, res) ==
  IF C13_NamedTwice(so)
    THEN /\ dec = DecodeFailed("duplicated section")
         /\ res = LoadFailed("duplicated section")
  ELSE /\ dec.ok
       /\ Len(dec.so) = Len(so)
       /\ SectionOffsetsInOrder(dec.so) = SubSeq(bs, Len(HeaderMagicBytes) + 1,
                                                 Len(bs) - Len(C13_Sobytes(bs).rest))
       /\ HasPrefix(bs, HeaderMagicBytes \o SectionOffsetsInOrder(so)) => dec.so = so

C13_DuplicateSections ==
  C13_OfSectionList
    => C13_Decoded(last.bs, decodeSectionOffsetsCBOR(C13_Sobytes(last.bs).val), last.res)

\* a map of three entries whose first and last name the same section
C13_Witness ==
  /\ C13_OfSectionList
  /\ Len(so) = 3
  /\ so[1].Name = so[3].Name
  /\ so[1].Name # so[2].Name
  /\ HasPrefix(last.bs, HeaderMagicBytes \o SectionOffsetsInOrder(so))
  /\ last.res.err = "duplicated section"

\* a map of three distinct names read back in an order that is not sorted
C13_WitnessDistinct ==
  /\ C13_OfSectionList
  /\ Len(so) = 3
  /\ ~C13_NamedTwice(so)
  /\ so[1].Name = S_responses
  /\ HasPrefix(last.bs, HeaderMagicBytes \o SectionOffsetsInOrder(so))
  /\ last.res.err \in {"", "offset out-of-range", "end out-of-range"}

(***************************************************************************)
(* C14: for the index section listed in the section offsets, loadMetadata  *)
(* accepts the section if and only if sections_start + offset + length is  *)
(* at most the length of the buffer, and returns the out-of-range error    *)
(* otherwise; a section that ends exactly at the end of the buffer is      *)
(* accepted.  Stated for the buffers on which the sectionsStart that       *)
(* loadMetadata computes is the offset that follows the byte string.       *)
(***************************************************************************)
\* the offset that follows the section-offsets byte string
C14_SectionsStart(bs) == Len(bs) - Len(C13_Sobytes(bs).rest)

\* the end of the section e, counted from the start of the buffer
C14_End(bs, e) == C14_SectionsStart(bs) + ToNat(e.Offset) + ToNat(e.Length)

\* a buffer with the magic, a section-offsets map that decodes and lists
\* index, and a byte-string header of two bytes
C14_ListsIndex(bs, dec) ==
  /\ HasPrefix(bs, HeaderMagicBytes)
  /\ C13_Sobytes(bs).ok
  /\ C14_SectionsStart(bs) = 12 + Len(C13_Sobytes(bs).val)
  /\ dec.ok
  /\ \E k \in 1..Len(dec.so) : dec.so[k].Name = S_index

C14_IndexOf(dec) == dec.so[CHOOSE k \in 1..Len(dec.so) : dec.so[k].Name = S_index]

C14_Accepts(bs, dec, res) ==
  /\ res.res = "ok" <=> C14_End(bs, C14_IndexOf(dec)) <= Len(bs)
  /\ res.res # "ok" => res.err \in {"offset out-of-range", "end out-of-range"}

C14_AcceptsIffInRange ==
  (last.op = "loadMetadata"
     /\ C14_ListsIndex(last.bs, decodeSectionOffsetsCBOR(C13_Sobytes(last.bs).val)))
    => C14_Accepts(last.bs, decodeSectionOffsetsCBOR(C13_Sobytes(last.bs).val), last.res)

(***************************************************************************)
(* C15: for entries with distinct keys, EncodeMap emits the same bytes for *)
(* every order of the entries; the keys are emitted in non-decreasing      *)
(* bytewise order, a key that is a proper prefix of another first (keys    *)
(* 41, 42 00, 41 41 come out as 41, 41 41, 42 00); so the bytes of the     *)
(* response-header map do not depend on the order in which the header      *)
(* collection is visited.                                                  *)
(***************************************************************************)
\* every order of the members of a set
C15_Orders(S) ==
  {f \in [1..Cardinality(S) -> S] :
     \A j \in DOMAIN f, k \in DOMAIN f : f[j] = f[k] => j = k}

\* a is b, a proper prefix of b, or smaller at the first byte that differs
C15_LexLeq(a, b) ==
  \/ Len(a) <= Len(b) /\ SubSeq(b, 1, Len(a)) = a
  \/ \E k \in 1..Len(a) :
       /\ k <= Len(b)
       /\ SubSeq(a, 1, k - 1) = SubSeq(b, 1, k - 1)
       /\ a[k] < b[k]

\* out is the map header and the entries of p, whose keys are in order
C15_EmittedInOrder(out, p) ==
  /\ out = CborHeader(5, Len(p)) \o ConcatEntries(p)
  /\ \A k \in 1..(Len(p) - 1) : C15_LexLeq(p[k].key, p[k + 1].key)

C15_Example ==
  <<GenerateMapEntry(<<65>>, <<1>>), GenerateMapEntry(<<66, 0>>, <<2>>),
    GenerateMapEntry(<<65, 65>>, <<3>>)>>

C15_CanonicalMapOrder ==
  /\ last.op = "EncodeMap" =>
       /\ \A p \in C15_Orders(Range(last.mes)) : EncodeMap(p) = last.out
       /\ \E p \in C15_Orders(Range(last.mes)) : C15_EmittedInOrder(last.out, p)
       /\ last.mes = C15_Example => last.out = <<163, 65, 1, 65, 65, 3, 66, 0, 2>>
  /\ last.op = "encodeResponseHeader" =>
       \A order \in C15_Orders(DOMAIN last.h) :
         encodeResponseHeader(last.i, last.h, order, last.filter) = last.out

\* the example of the claim encoded
C15_Witness ==
  /\ last.op = "EncodeMap"
  /\ last.mes = C15_Example
  /\ last.out = <<163, 65, 1, 65, 65, 3, 66, 0, 2>>

\* a header collection of three keys encoded, whose keys are not visited in
\* the order of the map
C15_WitnessHeader ==
  /\ last.op = "encodeResponseHeader"
  /\ Cardinality(DOMAIN last.h) = 3
  /\ last.filter = allKeys
  /\ \E order \in IterOrders(last.h) :
        encodeResponseHeader_Unsorted(last.i, last.h, order, last.filter) # last.out

(***************************************************************************)
(* C16: the encoder writes every unsigned integer and every length in      *)
(* shortest form: 0..23 in 1 byte, 24..255 in 2, 256..65535 in 3,          *)
(* 65536..2^32-1 in 5, 2^32 and above in 9; for 0, 23, 24, 255, 256,       *)
(* 65535, 65536, 2^32-1, 2^32 the encoded lengths are 1, 1, 2, 2, 3, 3, 5, *)
(* 5, 9.                                                                   *)
(***************************************************************************)
\* the length of the shortest form of the uint64 value u
C16_ShortestLen(u) ==
  IF LeqU64(u, U64(23)) THEN 1
  ELSE IF LeqU64(u, U64(255)) THEN 2
  ELSE IF LeqU64(u, U64(65535)) THEN 3
  ELSE IF LeqU64(u, <<0, 0, 0, 0, 255, 255, 255, 255>>) THEN 5
  ELSE 9

\* the values of the claim and the lengths it gives
C16_Table ==
  { <<U64(0), 1>>, <<U64(23), 1>>, <<U64(24), 2>>, <<U64(255), 2>>, <<U64(256), 3>>,
    <<U64(65535), 3>>, <<U64(65536), 5>>, <<<<0, 0, 0, 0, 255, 255, 255, 255>>, 5>>,
    <<<<0, 0, 0, 1, 0, 0, 0, 0>>, 9>> }

\* the integer or length the item is written with, and the bytes that follow it
C16_Argument(kind, val) ==
  CASE kind = "uint" -> val
    [] kind \in {"bstr", "tstr"} -> U64(Len(val))
    [] OTHER -> U64(val)

C16_Content(kind, val) == IF kind \in {"bstr", "tstr"} THEN val ELSE <<>>

C16_ShortestForm ==
  last.op = "Encode" =>
    /\ Len(last.out) = C16_ShortestLen(C16_Argument(last.kind, last.val))
                         + Len(C16_Content(last.kind, last.val))
    /\ \A t \in C16_Table :
         (last.kind = "uint" /\ last.val = t[1]) => Len(last.out) = t[2]

\* 2^32 written in 9 bytes
C16_Witness ==
  /\ last.op = "Encode"
  /\ last.kind = "uint"
  /\ last.val = <<0, 0, 0, 1, 0, 0, 0, 0>>
  /\ last.out = <<27, 0, 0, 0, 1, 0, 0, 0, 0>>

C17_WitnessNonMinimal ==
  /\ last.op = "DecodeBytes"
  /\ last.bs = <<24, 23>>
  /\ ~last.res.ok

(***************************************************************************)
(* C18: for a payload P and a record size R >= 1, the MICE encoding cuts P *)
(* into n consecutive records of R bytes (the last maybe shorter); the     *)
(* proof of the last record is its hash, the proof of record i the hash of *)
(* record i, the proof of record i+1 and a 0 byte; the MI digest is the    *)
(* first proof; the output is R in 8 big-endian bytes, then record 0,      *)
(* proof 1, record 1, ..., the last record, with no proof after it (8 +    *)
(* len(P) + 32 (n-1) bytes).  For the empty payload the output is the 8    *)
(* bytes of R and the digest is the hash of the empty string.              *)
(***************************************************************************)
\* the number of records, and record i (1-based)
C18_N(P, R) == (Len(P) + R - 1) \div R

C18_Record(P, R, i) ==
  SubSeq(P, (i - 1) * R + 1, IF i * R < Len(P) THEN i * R ELSE Len(P))

\* the proofs of the records 1..n
C18_Proofs(P, R) ==
  LET n == C18_N(P, R)
      pf[i \in 1..n] ==
        IF i = n THEN Sha256(C18_Record(P, R, i))
        ELSE Sha256(C18_Record(P, R, i) \o pf[i + 1] \o <<0>>)
  IN pf

\* where record i starts in the output (the offset before its first byte)
C18_At(R, i) == 8 + (i - 1) * (R + HashLen)

C18_Layout(P, R, out, pf) ==
  /\ Len(out) = 8 + Len(P) + HashLen * (C18_N(P, R) - 1)
  /\ SubSeq(out, 1, 8) = <<0, 0, 0, 0, 0, 0, 0, R>>
  /\ \A i \in 1..C18_N(P, R) :
       SubSeq(out, C18_At(R, i) + 1, C18_At(R, i) + Len(C18_Record(P, R, i)))
         = C18_Record(P, R, i)
  /\ \A i \in 1..(C18_N(P, R) - 1) :
       SubSeq(out, C18_At(R, i) + R + 1, C18_At(R, i + 1)) = pf[i + 1]

C18_MiceEncoding ==
  last.op = "miEncode" =>
    IF last.payload = <<>>
      THEN /\ last.out = <<0, 0, 0, 0, 0, 0, 0, last.recordSize>>
           /\ last.mi = S_misha256 \o <<61>> \o RawURLEncoding(Sha256(<<>>))
    ELSE /\ C18_Layout(last.payload, last.recordSize, last.out,
                       C18_Proofs(last.payload, last.recordSize))
         /\ last.mi = S_misha256 \o <<61>>
                        \o RawURLEncoding(C18_Proofs(last.payload, last.recordSize)[1])

\* a payload of three records, the last one shorter
C18_Witness ==
  /\ last.op = "miEncode"
  /\ Len(last.payload) = 5
  /\ last.recordSize = 2
  /\ Len(last.out) = 8 + 5 + 2 * HashLen

(***************************************************************************)
(* C19: for every list of names passed to AddSignedHeadersHeader, the      *)
(* signed-headers value added to the Input is the names in lower case,     *)
(* each in double quotes, joined by a comma and a blank, and it holds no   *)
(* pseudo-header name (no name that starts with ':'), also when the caller *)
(* passes such a name or an empty list.                                    *)
(***************************************************************************)
\* the names in lower case, quoted, joined by ", "
C19_Quoted(ks) ==
  Join([k \in 1..Len(ks) |-> <<34>> \o ToLower(ks[k]) \o <<34>>], <<44, 32>>)

C19_Format ==
  last.op = "AddSignedHeadersHeader" =>
    HeaderGet(header, S_signedheaders) = C19_Quoted(last.ks)

C19_NoPseudoHeader ==
  last.op = "AddSignedHeadersHeader" =>
    \A name \in SignedHeaderNames(header) : name[1] # 58

C19_SignedHeadersValue == C19_Format /\ C19_NoPseudoHeader

(***************************************************************************)
(* C20: no error is swallowed: when an encoding step fails while the       *)
(* signed message is built (the encoding of the canonical exchange headers *)
(* in the "headers" map entry included), Signer.sign returns an error and  *)
(* no signature.                                                           *)
(***************************************************************************)
C20_NoErrorSwallowed ==
  last.op = "signFailing" => (last.res.err /\ last.res.sig = <<>>)

C22_RoundTrip ==
  (last.op = "AddSignedHeadersHeader" /\ last.ks # <<>>)
    => parseSignedHeadersHeader(header) = [k \in 1..Len(last.ks) |-> ToLower(last.ks[k])]

\* the same for the lists of one name
C22_RoundTripOneName ==
  (last.op = "AddSignedHeadersHeader" /\ Len(last.ks) = 1)
    => parseSignedHeadersHeader(header) = <<ToLower(last.ks[1])>>

(***************************************************************************)
(* C23: for every response header the filter accepts whose value is a list *)
(* of two or more values, encodeResponseHeader emits one map entry whose   *)
(* key is the header name in lower case and whose value is all the values  *)
(* of the header joined by commas: no value is dropped.                    *)
(***************************************************************************)
\* the entries of the map the last encodeResponseHeader call emitted
C23_Entries == DecodeBstrMap(last.out).entries

C23_ListValuesJoined ==
  last.op = "encodeResponseHeader" =>
    \A k \in DOMAIN last.h :
      (FilterAccepts(last.filter, k) /\ Len(last.h[k]) >= 2) =>
        /\ Cardinality({j \in 1..Len(C23_Entries) : C23_Entries[j].key = ToLower(k)}) = 1
        /\ \E j \in 1..Len(C23_Entries) :
             /\ C23_Entries[j].key = ToLower(k)
             /\ C23_Entries[j].value = Join(last.h[k], <<44>>)

(***************************************************************************)
(* C24: encodeCanonicalRequest emits a map of exactly two entries with     *)
(* byte-string keys and values, :url with the request URI first and        *)
(* :method with GET second (the encoded key of :url is the smaller one);   *)
(* the same bytes are the request slot of the exchange file and the first  *)
(* element of the canonical exchange headers.                              *)
(***************************************************************************)
\* the request map of the claim for the model's Input, byte by byte
C24_RequestMap ==
  <<162>> \o <<64 + Len(S_url)>> \o S_url \o EncodeByteString(input.RequestUri)
          \o <<64 + Len(S_method)>> \o S_method \o <<64 + Len(S_GET)>> \o S_GET

\* the request slot of an exchange file: what follows the array header, the
\* text "htxg" and the text "request"
C24_RequestSlot(file) == DropTo(file, 1 + (1 + Len(S_htxg)) + (1 + Len(S_request)) + 1)

\* the first element of canonical exchange headers: what follows the array header
C24_FirstElement(exch) == DropTo(exch, 2)

C24_CanonicalRequest ==
  /\ last.op = "WriteExchangeFile" =>
       /\ HasPrefix(C24_RequestSlot(last.out), C24_RequestMap)
       /\ DecodeBstrMap(C24_RequestSlot(last.out)).ok
       /\ DecodeBstrMap(C24_RequestSlot(last.out)).entries
            = <<[key |-> S_url, value |-> input.RequestUri],
                [key |-> S_method, value |-> S_GET]>>
       /\ BytesLess(EncodeByteString(S_url), EncodeByteString(S_method))
  /\ last.op = "SignatureHeaderValue" =>
       /\ HasPrefix(C24_FirstElement(last.exch), C24_RequestMap)
       /\ DecodeBstrMap(C24_FirstElement(last.exch)).entries
            = <<[key |-> S_url, value |-> input.RequestUri],
                [key |-> S_method, value |-> S_GET]>>

C24_Witness == last.op = "WriteExchangeFile" /\ input.RequestUri = U2

C24_WitnessSigned ==
  last.op = "SignatureHeaderValue" /\ ~last.res.err /\ input.RequestUri = U1

(***************************************************************************)
(* C25: the index-section builder is used add* -> Finalize -> Len/Bytes.   *)
(* Len and Bytes panic exactly when no Finalize has returned before, and   *)
(* Finalize panics exactly when one has; in a run of WriteTo the builder   *)
(* methods are called in the order addExchange (once per exchange),        *)
(* Finalize, Len, Bytes, each of the last three at most once, all of them  *)
(* in a run that returns no error, and no call panics (for a Bundle with   *)
(* no exchange too).                                                       *)
(***************************************************************************)
\* the builder calls of a complete run of WriteTo
C25_Calls ==
  [k \in 1..(Len(exchanges) + 3) |->
     IF k <= Len(exchanges) THEN "addExchange"
     ELSE IF k = Len(exchanges) + 1 THEN "Finalize"
     ELSE IF k = Len(exchanges) + 2 THEN "Len"
     ELSE "Bytes"]

C25_WitnessLenPanics ==
  last.op = "indexSection" /\ last.call = "Len" /\ last.panic /\ last.is.mes # <<>>

C25_WitnessSecondFinalize ==
  last.op = "indexSection" /\ last.call = "Finalize" /\ last.panic

(***************************************************************************)
(* C27: WriteTo stages everything before it writes.  No byte reaches the   *)
(* sink before every exchange was added and the index finalized; when the  *)
(* staging of an exchange fails WriteTo returns (0, error) and the sink    *)
(* holds nothing; what reaches the sink is, in this order, the magic, the  *)
(* section-offsets byte string, the section array header, the index bytes, *)
(* the responses bytes and the footer; and when a write fails the count    *)
(* returned is the number of bytes the sink holds.                         *)
(***************************************************************************)
\* the section-offsets map of the two staged sections, from the claim's
\* layout: index at 0, responses right after it
C27_SectionOffsets(index, responses) ==
  EncodeMap(<<GenerateMapEntry(EncodeTextString(S_index),
                               <<130>> \o EncodeUInt(0) \o EncodeUInt(Len(index))),
              GenerateMapEntry(EncodeTextString(S_responses),
                               <<130>> \o EncodeUInt(Len(index))
                                       \o EncodeUInt(Len(responses)))>>)

\* the pieces before the footer, in the order of the claim
C27_Sections(index, responses) ==
  HeaderMagicBytes
  \o EncodeByteString(C27_SectionOffsets(index, responses))
  \o <<130>>
  \o index
  \o responses

\* the whole Bundle: the footer holds the size of all of it in 8 bytes
C27_Whole(index, responses) ==
  C27_Sections(index, responses)
  \o <<72>> \o BigEndian(Len(C27_Sections(index, responses)) + 9, 8)

C27_WitnessStaging ==
  /\ last.op = "WriteToRun" /\ last.ret.returned /\ last.ret.err
  /\ last.k = 2 /\ Len(exchanges) = 2

\* a write fails in the responses, and in the footer
C27_WitnessResponses ==
  /\ last.op = "WriteToRun" /\ last.ret.returned /\ last.ret.err
  /\ last.pc = "done" /\ last.calls # <<>> /\ last.calls[Len(last.calls)] = "Bytes"
  /\ last.ret.n >= Len(C27_Whole(last.is.bytes, last.rs.buf)) - 9 - Len(last.rs.buf)
  /\ last.ret.n < Len(C27_Whole(last.is.bytes, last.rs.buf)) - 9

C27_WitnessFooter ==
  /\ last.op = "WriteToRun" /\ last.ret.returned /\ last.ret.err
  /\ last.calls # <<>> /\ last.calls[Len(last.calls)] = "Bytes"
  /\ last.ret.n >= Len(C27_Whole(last.is.bytes, last.rs.buf)) - 9

C27_WitnessWritten ==
  /\ last.op = "WriteToRun" /\ last.ret.returned /\ ~last.ret.err
  /\ Len(exchanges) = 2

(***************************************************************************)
(* C26: the status is validated by the text-manifest parser only.          *)
(* parseTextParts accepts a status line exactly when it is an integer from *)
(* 100 to 999; encodeResponseHeader and WriteExchangeFile reject no status *)
(* and emit the decimal text of the integer the Input holds, which has     *)
(* exactly 3 characters for every status from 100 to 599.                  *)
(***************************************************************************)
\* the line is the text of an integer from 100 to 999: an optional sign that
\* is not "-", any number of "0"s, then three digits, the first not "0"
C26_IsStatusLine(t) ==
  LET u == IF t # <<>> /\ Head(t) = 43 THEN Tail(t) ELSE t
      z == CHOOSE k \in 0..Len(u) :
             /\ \A j \in 1..k : u[j] = 48
             /\ k < Len(u) => u[k + 1] # 48
  IN /\ Len(u) = z + 3
     /\ \A j \in (z + 1)..Len(u) : u[j] \in 48..57

\* the integer a decimal text stands for
C26_Value(t) ==
  IF t # <<>> /\ Head(t) = 45
    THEN 0 - DigitsValue(Tail(t))
  ELSE DigitsValue(t)

\* the value of the :status entry of a response-header map
C26_StatusOf(bs) ==
  LET es == DecodeBstrMap(bs).entries
  IN es[CHOOSE j \in 1..Len(es) : es[j].key = S_status].value

\* the response slot of an exchange file
C26_ResponseSlot(file) ==
  DecodeTextString(DecodeBstrMap(C24_RequestSlot(file)).rest).rest

C26_StatusValidation ==
  /\ last.op = "parseTextParts" =>
       /\ last.res.ok <=> C26_IsStatusLine(last.line)
       /\ last.res.ok =>
            /\ Len(last.res.status) = 3
            /\ C26_Value(last.res.status) = C26_Value(StripLeadingZeros(
                 IF Head(last.line) = 43 THEN Tail(last.line) ELSE last.line))
  /\ last.op = "encodeStatus" =>
       /\ DecodeBstrMap(last.out).ok
       /\ \E j \in 1..Len(DecodeBstrMap(last.out).entries) :
            DecodeBstrMap(last.out).entries[j].key = S_status
       /\ C26_Value(C26_StatusOf(last.out)) = last.status
       /\ \A k \in 1..Len(C26_StatusOf(last.out)) :
            C26_StatusOf(last.out)[k] \in 48..57 \/ (k = 1 /\ C26_StatusOf(last.out)[k] = 45)
       /\ C26_StatusOf(last.out) # <<45>>
       /\ last.status \in 100..599 => Len(C26_StatusOf(last.out)) = 3
       /\ DecodeBstrMap(C26_ResponseSlot(last.file)).ok
       /\ C26_StatusOf(C26_ResponseSlot(last.file)) = C26_StatusOf(last.out)

C26_Witness ==
  last.op = "parseTextParts" /\ last.res.ok /\ last.line = <<57, 57, 57>>

C26_WitnessRejected ==
  last.op = "parseTextParts" /\ ~last.res.ok /\ last.line = <<49, 48, 48, 48>>

C26_WitnessEmitted ==
  last.op = "encodeStatus" /\ last.status = 1000 /\ Len(C26_StatusOf(last.out)) = 4

C26_WitnessNegative ==
  last.op = "encodeStatus" /\ last.status < 0

(***************************************************************************)
(* C28: loadMetadata never panics and never reads outside the buffer: for  *)
(* every buffer, those whose section offsets and lengths make              *)
(* sections_start + offset or offset + length wrap around in 64 bits too,  *)
(* it returns metadata or an error, every slice it takes having            *)
(* offset <= end <= buffer length.                                         *)
(***************************************************************************)
C28_NeverPanics ==
  last.op = "loadMetadata" => last.res.res \in {"ok", "error"}

\* a buffer whose sections_start + offset wraps around is read without panic
C28_WrappedOffsetRead ==
  /\ last.op = "loadMetadata" /\ last.res.res = "ok"
  /\ last.res.meta.sectionOffsets # <<>>
  /\ ~LeqU64(last.res.meta.sectionOffsets[1].Offset, U64(65535))

(***************************************************************************)
(* C29: the Signature header describes what was signed.  When              *)
(* SignatureHeaderValue succeeds, the date and expires parameters of the   *)
(* header are the integers of the date and expires entries of the signed   *)
(* message, the certSha256 parameter is the base64 of the hash the message *)
(* binds under certSha256 (the hash of the first certificate), and the     *)
(* header carries no certSha256 the message does not bind.                 *)
(***************************************************************************)
\* the integer of a CBOR item of major type 0 or 1
C29_Int(item) == IF item.major = 0 THEN item.n ELSE (0 - 1) - item.n

\* the map of a signed message: what follows the 64 blanks, the context
\* string and the 0 byte
C29_Map(msg) == DropTo(msg, 64 + Len(S_HTTPExchange) + 1 + 1)

\* what follows the value of the "headers" entry: an array of two maps
C29_AfterHeaders(bs) ==
  DecodeBstrMap(DecodeBstrMap(DecodeArrayHeader(DecodeTextString(bs).rest).rest).rest).rest

\* the entries of a signed message, which are in the order date, expires,
\* headers, certSha256: [n, date, expires, bound, cert]
C29_Message(msg) ==
  LET m == DecodeMapHeader(C29_Map(msg))
      kd == DecodeTextString(m.rest)
      d == DecodeHead(kd.rest)
      ke == DecodeTextString(d.rest)
      e == DecodeHead(ke.rest)
      kh == DecodeTextString(e.rest)
      after == C29_AfterHeaders(e.rest)
      kc == DecodeTextString(after)
  IN [n |-> m.n,
      keys |-> <<kd.val, ke.val, kh.val>>,
      date |-> C29_Int(d),
      expires |-> C29_Int(e),
      bound |-> m.n = 4 /\ kc.ok /\ kc.val = S_certSha256,
      cert |-> IF m.n = 4 /\ kc.ok THEN DecodeByteString(kc.rest).val ELSE <<>>]

\* the values of the parameters of that name in a Signature header value
C29_Param(v, name) ==
  {Params(v)[k].value : k \in {j \in 1..Len(Params(v)) : Params(v)[j].name = name}}

C29_HeaderDescribesMessage ==
  (last.op = "SignatureHeaderValue" /\ ~last.res.err) =>
    /\ C29_Message(last.res.msg).keys = <<S_date, S_expires, S_headers>>
    /\ \A t \in C29_Param(last.res.value, S_date) :
         C26_Value(t) = C29_Message(last.res.msg).date
    /\ \A t \in C29_Param(last.res.value, S_expires) :
         C26_Value(t) = C29_Message(last.res.msg).expires
    /\ C29_Param(last.res.value, S_date) # {}
    /\ C29_Param(last.res.value, S_expires) # {}
    /\ \A t \in C29_Param(last.res.value, S_certSha256) :
         /\ C29_Message(last.res.msg).bound
         /\ t = <<42>> \o RawStdEncoding(C29_Message(last.res.msg).cert)
         /\ C29_Message(last.res.msg).cert = Sha256(last.signer.Certs[1])

\* the same for the Signers that have a certificate
C29_WithCertificate ==
  (last.op = "SignatureHeaderValue" /\ ~last.res.err /\ last.signer.Certs # <<>>) =>
    /\ C29_Message(last.res.msg).keys = <<S_date, S_expires, S_headers>>
    /\ C29_Param(last.res.value, S_date)
         = {Itoa(C29_Message(last.res.msg).date)}
    /\ C29_Param(last.res.value, S_expires)
         = {Itoa(C29_Message(last.res.msg).expires)}
    /\ C29_Message(last.res.msg).bound
    /\ C29_Message(last.res.msg).cert = Sha256(last.signer.Certs[1])
    /\ C29_Param(last.res.value, S_certSha256)
         = {<<42>> \o RawStdEncoding(C29_Message(last.res.msg).cert)}

\* without a certificate the dates still agree
C29_DatesAgree ==
  (last.op = "SignatureHeaderValue" /\ ~last.res.err) =>
    /\ C29_Param(last.res.value, S_date) = {Itoa(C29_Message(last.res.msg).date)}
    /\ C29_Param(last.res.value, S_expires) = {Itoa(C29_Message(last.res.msg).expires)}
    /\ C29_Message(last.res.msg).date = last.signer.Date
    /\ C29_Message(last.res.msg).expires = last.signer.Expires

(***************************************************************************)
(* C30: every response-header map encodeResponseHeader emits has pairwise  *)
(* distinct keys, for Inputs whose headers hold two names that differ in   *)
(* letter case only or a header named ":status" too, and the entry count   *)
(* of its header is the number of entries that follow.                     *)
(***************************************************************************)
C30_DistinctKeys ==
  last.op = "encodeHeaderNames" =>
    /\ DecodeBstrMap(last.out).ok
    /\ DecodeBstrMap(last.out).rest = <<>>
    /\ Len(DecodeBstrMap(last.out).entries) = DecodeMapHeader(last.out).n
    /\ \A j, k \in 1..Len(DecodeBstrMap(last.out).entries) :
         j # k => DecodeBstrMap(last.out).entries[j].key
                    # DecodeBstrMap(last.out).entries[k].key

\* the count always is the number of entries, and the keys are distinct when
\* the names of the collection are distinct in lower case and none is :status
C30_CountIsEntries ==
  last.op = "encodeHeaderNames" =>
    /\ DecodeBstrMap(last.out).ok
    /\ DecodeBstrMap(last.out).rest = <<>>
    /\ (/\ \A a, b \in DOMAIN last.h : a # b => ToLower(a) # ToLower(b)
        /\ S_status \notin DOMAIN last.h)
         => \A j, k \in 1..Len(DecodeBstrMap(last.out).entries) :
              j # k => DecodeBstrMap(last.out).entries[j].key
                         # DecodeBstrMap(last.out).entries[k].key

====
